---------------------------- MODULE Spec2Model ----------------------------
(***************************************************************************)
(* Movies API: the movie query engine (list / by-genre / by-rating /       *)
(* similar) and the curated-list operations (title resolver, list create,  *)
(* update, delete) as state machines over the relational store.            *)
(*                                                                         *)
(* Text is a sequence of one-character strings, so that strip, lower,      *)
(* upper, split and SQL LIKE are computed character by character.          *)
(* An optional value is a set: {} is None / SQL NULL, {v} is the value v.  *)
(***************************************************************************)
EXTENDS Integers, Sequences, FiniteSets, TLC

VARIABLES
    movies,   \* table "movies": rows in rowid order
    lists,    \* table "movie_lists": set of rows [id, name, description]
    items,    \* table "movie_list_items": set of rows [id, list_id, movie_id, position]
    resp      \* the request being answered and its response; NoResp when idle

vars == <<movies, lists, items, resp>>

----------------------------------------------------------------------------
(* Optional values *)

None == {}

Some(v) == {v}

Val(o) == CHOOSE v \in o : TRUE

Min(a, b) == IF a <= b THEN a ELSE b

Max(a, b) == IF a >= b THEN a ELSE b

----------------------------------------------------------------------------
(* Text: Python str and SQLite TEXT *)

UpperLetters == <<"A","B","C","D","E","F","G","H","I","J","K","L","M",
                  "N","O","P","Q","R","S","T","U","V","W","X","Y","Z">>

LowerLetters == <<"a","b","c","d","e","f","g","h","i","j","k","l","m",
                  "n","o","p","q","r","s","t","u","v","w","x","y","z">>

\* The characters of the model in code point order (space, %, comma, A-Z, _, a-z).
CodePoints == <<" ", "%", ",">> \o UpperLetters \o <<"_">> \o LowerLetters

Chars == {CodePoints[i] : i \in DOMAIN CodePoints}

OrdOf == [c \in Chars |-> CHOOSE i \in DOMAIN CodePoints : CodePoints[i] = c]

Ord(c) == OrdOf[c]

LowerOf ==
    [c \in Chars |->
        IF \E i \in DOMAIN UpperLetters : UpperLetters[i] = c
        THEN LowerLetters[CHOOSE i \in DOMAIN UpperLetters : UpperLetters[i] = c]
        ELSE c]

UpperOf ==
    [c \in Chars |->
        IF \E i \in DOMAIN LowerLetters : LowerLetters[i] = c
        THEN UpperLetters[CHOOSE i \in DOMAIN LowerLetters : LowerLetters[i] = c]
        ELSE c]

LowerChar(c) == LowerOf[c]

UpperChar(c) == UpperOf[c]

\* str.lower() / SQL lower()
Lower(s) == [i \in DOMAIN s |-> LowerChar(s[i])]

\* str.upper()
Upper(s) == [i \in DOMAIN s |-> UpperChar(s[i])]

IsSpace(c) == c = " "

RECURSIVE LStrip(_)
LStrip(s) == IF s # <<>> /\ IsSpace(Head(s)) THEN LStrip(Tail(s)) ELSE s

RECURSIVE RStrip(_)
RStrip(s) ==
    IF s # <<>> /\ IsSpace(s[Len(s)]) THEN RStrip(SubSeq(s, 1, Len(s) - 1)) ELSE s

\* str.strip()
Strip(s) == RStrip(LStrip(s))

\* str.split(","): the parts between the commas, empty parts kept
RECURSIVE SplitComma(_, _)
SplitComma(s, cur) ==
    IF s = <<>> THEN <<cur>>
    ELSE IF Head(s) = "," THEN <<cur>> \o SplitComma(Tail(s), <<>>)
    ELSE SplitComma(Tail(s), Append(cur, Head(s)))

\* a < b for Python str / SQLite BINARY collation: code point by code point
RECURSIVE TextLess(_, _)
TextLess(a, b) ==
    IF b = <<>> THEN FALSE
    ELSE IF a = <<>> THEN TRUE
    ELSE IF Head(a) = Head(b) THEN TextLess(Tail(a), Tail(b))
    ELSE Ord(Head(a)) < Ord(Head(b))

\* SQL "s LIKE p": % matches any run of characters, _ any one character
RECURSIVE LikeMatch(_, _)
LikeMatch(s, p) ==
    IF p = <<>> THEN s = <<>>
    ELSE IF Head(p) = "%"
         THEN LikeMatch(s, Tail(p)) \/ (s # <<>> /\ LikeMatch(Tail(s), p))
         ELSE /\ s # <<>>
              /\ (Head(p) = "_" \/ Head(p) = Head(s))
              /\ LikeMatch(Tail(s), Tail(p))

\* column.ilike(pattern) on SQLite: lower(column) LIKE lower(pattern); NULL never matches
ILike(col, pattern) == col # None /\ LikeMatch(Lower(Val(col)), Lower(pattern))

\* Python truthiness of an Optional[str]: neither None nor ""
Truthy(o) == o # None /\ Val(o) # <<>>

----------------------------------------------------------------------------
(* Program constants *)

MAX_LIMIT == 100

RELEASED == <<"r","e","l","e","a","s","e","d">>

NOT_RELEASED == <<"n","o","t"," ">> \o RELEASED

MOVIE_STATUS_VALUES == {RELEASED, NOT_RELEASED}

----------------------------------------------------------------------------
(* crud/movie.py: paginated queries *)

\* query.offset(skip).limit(limit)
OffsetLimit(query, skip, limit) ==
    SubSeq(query, skip + 1, Min(Len(query), skip + limit))

ClampLimitUncapped(limit) == limit

\* if limit > MAX_LIMIT: limit = MAX_LIMIT
ClampLimit(limit) == IF limit > MAX_LIMIT THEN MAX_LIMIT ELSE limit

PaginateCountPage(query, skip, limit) ==
    LET page == OffsetLimit(query, skip, ClampLimit(limit))
    IN  [movies |-> page, total |-> Len(page)]

\* total = count(*) over the query; movies = the query with offset and limit
Paginate(query, skip, limit) ==
    [movies |-> OffsetLimit(query, skip, ClampLimit(limit)),
     total  |-> Len(query)]

\* the where-clauses of get_movies, one per criterion
WhereTitle(m, title) == ILike(Some(m.title), <<"%">> \o title \o <<"%">>)

WhereGenre(m, genre) == ILike(m.genres, <<"%">> \o genre \o <<"%">>)

WhereAdult(m, adult) == m.adult # None /\ Val(m.adult) = adult

WhereStatus(m, status) == m.status # None /\ Val(m.status) = Lower(Strip(status))

WhereMinVote(m, v) == m.vote_average # None /\ Val(m.vote_average) >= v

WhereMaxVoteStrict(m, v) == m.vote_average # None /\ Val(m.vote_average) < v

WhereMaxVote(m, v) == m.vote_average # None /\ Val(m.vote_average) <= v

get_movies(db, skip, limit, title, genre, adult, status, min_vote_average) ==
    LET q0 == db
        q1 == IF Truthy(title)
              THEN SelectSeq(q0, LAMBDA m : WhereTitle(m, Val(title))) ELSE q0
        q2 == IF Truthy(genre)
              THEN SelectSeq(q1, LAMBDA m : WhereGenre(m, Val(genre))) ELSE q1
        q3 == IF adult # None
              THEN SelectSeq(q2, LAMBDA m : WhereAdult(m, Val(adult))) ELSE q2
        q4 == IF Truthy(status)
              THEN SelectSeq(q3, LAMBDA m : WhereStatus(m, Val(status))) ELSE q3
        q5 == IF min_vote_average # None
              THEN SelectSeq(q4, LAMBDA m : WhereMinVote(m, Val(min_vote_average)))
              ELSE q4
    IN  Paginate(q5, skip, limit)

get_movies_by_genre(db, genre, skip, limit) ==
    Paginate(SelectSeq(db, LAMBDA m : WhereGenre(m, genre)), skip, limit)

OrderByNothing(rows) == rows

\* the rows rated with one of `votes`, highest rating first, rows of equal
\* rating in table order
RECURSIVE by_vote_desc(_, _)
by_vote_desc(rows, votes) ==
    IF votes = {} THEN <<>>
    ELSE LET top == CHOOSE v \in votes : \A w \in votes : w <= v
         IN  SelectSeq(rows, LAMBDA m : Val(m.vote_average) = top)
                \o by_vote_desc(rows, votes \ {top})

\* ORDER BY vote_average DESC
OrderByVoteDesc(rows) ==
    by_vote_desc(rows, {Val(rows[i].vote_average) : i \in DOMAIN rows})

get_movies_by_rating(db, min_rating, max_rating, skip, limit) ==
    LET q0 == SelectSeq(db, LAMBDA m : m.vote_average # None)
        q1 == IF min_rating # None
              THEN SelectSeq(q0, LAMBDA m : WhereMinVote(m, Val(min_rating))) ELSE q0
        q2 == IF max_rating # None
              THEN SelectSeq(q1, LAMBDA m : WhereMaxVote(m, Val(max_rating))) ELSE q1
    IN  Paginate(OrderByVoteDesc(q2), skip, limit)

\* get_movies_by_title: Movie.title.ilike(title) when exact, else ilike(f"%{title}%")
get_movies_by_title(db, title, exact) ==
    IF exact
    THEN SelectSeq(db, LAMBDA m : ILike(Some(m.title), title))
    ELSE SelectSeq(db, LAMBDA m : ILike(Some(m.title), <<"%">> \o title \o <<"%">>))


----------------------------------------------------------------------------
(* schemas/movie.py, crud/movie.py, routes/movies.py: movie create *)

\* MovieBase.normalise_status: [ok, value]; ok = FALSE is the ValueError
\* a validator that tests the folded text and returns the text as it was given
normalise_status_as_given(v) ==
    IF v = None THEN [ok |-> TRUE, value |-> None]
    ELSE IF Lower(Strip(Val(v))) \notin MOVIE_STATUS_VALUES
         THEN [ok |-> FALSE, value |-> None]
         ELSE [ok |-> TRUE, value |-> v]

normalise_status(v) ==
    IF v = None THEN [ok |-> TRUE, value |-> None]
    ELSE LET value == Lower(Strip(Val(v)))
         IN  IF value \notin MOVIE_STATUS_VALUES
             THEN [ok |-> FALSE, value |-> None]
             ELSE [ok |-> TRUE, value |-> Some(value)]

\* SQLite rowid of a new row of a table whose ids are `ids`
NewId(ids) == IF ids = {} THEN 1 ELSE (CHOOSE i \in ids : \A j \in ids : j <= i) + 1

MovieIds(db) == {db[i].id : i \in DOMAIN db}

\* create_movie: INSERT of Movie(**movie_in.dict()); a None adult takes the column default
create_movie(db, movie_in) ==
    Append(db, [id           |-> NewId(MovieIds(db)),
                title        |-> movie_in.title,
                genres       |-> movie_in.genres,
                keywords     |-> movie_in.keywords,
                status       |-> movie_in.status,
                vote_average |-> movie_in.vote_average,
                adult        |-> IF movie_in.adult = None THEN Some(FALSE)
                                 ELSE movie_in.adult])

NoResp == [op |-> "none"]

\* POST /movies with a body from `payloads`, while the table holds fewer than `cap` rows
create_movie_endpoint(payloads, cap) ==
    /\ resp = NoResp
    /\ Len(movies) < cap
    /\ \E body \in payloads :
         LET st == normalise_status(body.status)
         IN  IF ~st.ok
             THEN /\ resp' = [op |-> "create_movie", req |-> body, code |-> 422]
                  /\ UNCHANGED movies
             ELSE /\ movies' = create_movie(movies, [body EXCEPT !.status = st.value])
                  /\ resp' = [op |-> "create_movie", req |-> body, code |-> 201,
                              body |-> movies'[Len(movies')]]
    /\ UNCHANGED <<lists, items>>

\* the response has been sent; get_db's finally closes the session
Respond ==
    /\ resp # NoResp
    /\ resp' = NoResp
    /\ UNCHANGED <<movies, lists, items>>

----------------------------------------------------------------------------
(* Texts used as data *)

T_Action == <<"A","c","t","i","o","n">>

T_Drama == <<"D","r","a","m","a">>

T_Comedy == <<"C","o","m","e","d","y">>

\* GenreFilter: three of the enumeration's members
GenreFilter == {T_Action, T_Drama}

Movie(title, genres, keywords, status, vote_average, adult) ==
    [title |-> title, genres |-> genres, keywords |-> keywords, status |-> status,
     vote_average |-> vote_average, adult |-> adult]

\* bodies of POST /movies for the query machine
QueryPayloads ==
    { Movie(<<"I","n">>, Some(T_Action \o <<",", " ">> \o T_Drama), None,
            Some(RELEASED), Some(8), None),
      Movie(<<"i","t">>, Some(T_Drama), None,
            Some(NOT_RELEASED), Some(6), Some(TRUE)),
      Movie(<<"A","_">>, Some(Lower(T_Action) \o <<" ">> \o Lower(T_Comedy)), None,
            Some(<<" ","R","e","l","e","a","s","e","d">>), Some(7), Some(FALSE)),
      Movie(<<"T">>, None, None, None, None, None) }

\* rows as import_csv inserts them: explicit id, NULLs kept
ImportedStore ==
    << [id |-> 3, title |-> <<"I","t">>, genres |-> Some(T_Action), keywords |-> None,
        status |-> Some(RELEASED), vote_average |-> Some(9), adult |-> None],
       [id |-> 7, title |-> <<>>, genres |-> None, keywords |-> None,
        status |-> None, vote_average |-> Some(0), adult |-> Some(FALSE)] >>

\* a table with more rows than MAX_LIMIT
BigStore ==
    [i \in 1..(MAX_LIMIT + 2) |->
        [id |-> i, title |-> <<"M">>,
         genres |-> IF i % 3 = 0 THEN Some(T_Drama) ELSE Some(T_Action),
         keywords |-> None,
         status |-> Some(RELEASED),
         vote_average |-> IF i % 51 = 0 THEN None ELSE Some(5 + (i % 4)),
         adult |-> Some(FALSE)]]

----------------------------------------------------------------------------
(* routes/movies.py: the paginated endpoints *)

\* an envelope that would report the limit the query applied
MovieListResponseClamped(res, skip, limit) ==
    [items |-> res.movies, total |-> res.total, skip |-> skip,
     limit |-> ClampLimit(limit)]

\* MovieListResponse(items=movies, total=total, skip=skip, limit=limit)
MovieListResponse(res, skip, limit) ==
    [items |-> res.movies, total |-> res.total, skip |-> skip, limit |-> limit]

\* GET /movies
list_movies_endpoint(Skips, Limits, Titles, Genres, Adults, Statuses, MinVotes) ==
    /\ resp = NoResp
    /\ \E skip \in Skips, limit \in Limits, title \in Titles, genre \in Genres,
          adult \in Adults, status \in Statuses, min_vote_average \in MinVotes :
         LET req == [skip |-> skip, limit |-> limit, title |-> title, genre |-> genre,
                     adult |-> adult, status |-> status,
                     min_vote_average |-> min_vote_average]
         IN  IF skip < 0 \/ limit <= 0
                \/ (min_vote_average # None
                    /\ (Val(min_vote_average) < 0 \/ Val(min_vote_average) > 10))
             THEN resp' = [op |-> "list_movies", req |-> req, code |-> 422]
             ELSE LET st  == IF Truthy(status) THEN Some(Lower(Strip(Val(status))))
                             ELSE None
                      res == get_movies(movies, skip, limit, title, genre, adult, st,
                                        min_vote_average)
                  IN  resp' = [op |-> "list_movies", req |-> req, code |-> 200,
                               body |-> MovieListResponse(res, skip, limit)]
    /\ UNCHANGED <<movies, lists, items>>

\* GET /movies/by-genre/{genre}
get_movies_by_genre_endpoint(Skips, Limits, Genres) ==
    /\ resp = NoResp
    /\ \E skip \in Skips, limit \in Limits, genre \in Genres :
         LET req == [skip |-> skip, limit |-> limit, genre |-> genre]
         IN  IF skip < 0 \/ limit <= 0
             THEN resp' = [op |-> "by_genre", req |-> req, code |-> 422]
             ELSE resp' = [op |-> "by_genre", req |-> req, code |-> 200,
                           body |-> MovieListResponse(
                                      get_movies_by_genre(movies, genre, skip, limit),
                                      skip, limit)]
    /\ UNCHANGED <<movies, lists, items>>

\* GET /movies/by-rating
no_bound_or_one(min_rating, max_rating) == min_rating = None \/ max_rating = None

\* if min_rating is None and max_rating is None: raise HTTPException(422)
no_bound(min_rating, max_rating) == min_rating = None /\ max_rating = None

\* statements is the number of statements the handler ran on the session
get_movies_by_rating_endpoint(Skips, Limits, MinRatings, MaxRatings) ==
    /\ resp = NoResp
    /\ \E skip \in Skips, limit \in Limits,
          min_rating \in MinRatings, max_rating \in MaxRatings :
         LET req == [skip |-> skip, limit |-> limit,
                     min_rating |-> min_rating, max_rating |-> max_rating]
         IN  IF skip < 0 \/ limit <= 0
             THEN resp' = [op |-> "by_rating", req |-> req, code |-> 422,
                           statements |-> 0]
             ELSE IF no_bound(min_rating, max_rating)
             THEN resp' = [op |-> "by_rating", req |-> req, code |-> 422,
                           statements |-> 0]
             ELSE resp' = [op |-> "by_rating", req |-> req, code |-> 200,
                           statements |-> 2,
                           body |-> MovieListResponse(
                                      get_movies_by_rating(movies, min_rating,
                                                           max_rating, skip, limit),
                                      skip, limit)]
    /\ UNCHANGED <<movies, lists, items>>

\* GET /movies/by-title/{title}
get_movies_by_title_endpoint(Titles) ==
    /\ resp = NoResp
    /\ \E title \in Titles, exact \in BOOLEAN :
         LET req == [title |-> title, exact |-> exact]
             found == get_movies_by_title(movies, title, exact)
         IN  IF found = <<>>
             THEN resp' = [op |-> "by_title", req |-> req, code |-> 404]
             ELSE resp' = [op |-> "by_title", req |-> req, code |-> 200,
                           body |-> found]
    /\ UNCHANGED <<movies, lists, items>>

----------------------------------------------------------------------------
(* The query machine: a movie table and the paginated endpoints *)

MaxMovies == 2

Skips == {0, 1, MAX_LIMIT + 1}

Limits == {0, 1, 2, MAX_LIMIT, MAX_LIMIT + 1}

\* GET /movies is tried with every combination of criteria on fewer pages
ListSkips == {0, 1}

ListLimits == {1, MAX_LIMIT + 1}

TitleFilters == {None, Some(<<>>), Some(<<"i">>), Some(<<"_">>)}

GenreFilters == {None} \cup {Some(g) : g \in GenreFilter}

AdultFilters == {None, Some(TRUE), Some(FALSE)}

StatusFilters ==
    {None, Some(<<" ">>), Some(<<" ","R","e","l","e","a","s","e","d">>), Some(NOT_RELEASED),
     Some(<<"x">>)}

MinVoteFilters == {None, Some(7)}

RatingBounds == {None, Some(0), Some(7)}

\* the {title} path segment: never empty
PathTitles == {<<"i">>, <<"I","T">>, <<"_">>, <<"z">>}

InitQuery ==
    /\ movies \in {<<>>, ImportedStore, BigStore}
    /\ lists = {}
    /\ items = {}
    /\ resp = NoResp

CreateMovieQ == create_movie_endpoint(QueryPayloads, MaxMovies)

ListMovies ==
    list_movies_endpoint(ListSkips, ListLimits, TitleFilters, GenreFilters, AdultFilters,
                         StatusFilters, MinVoteFilters)

ByGenre == get_movies_by_genre_endpoint(Skips, Limits, GenreFilter)

ByRating == get_movies_by_rating_endpoint(Skips, Limits, RatingBounds, RatingBounds)

ByTitle == get_movies_by_title_endpoint(PathTitles)

NextQuery == CreateMovieQ \/ ListMovies \/ ByGenre \/ ByRating \/ ByTitle \/ Respond

SpecQuery == InitQuery /\ [][NextQuery]_vars

----------------------------------------------------------------------------
(* Claims about the paginated queries (checked under SpecQuery) *)

Paged == resp.op \in {"list_movies", "by_genre", "by_rating"} /\ resp.code = 200

\* the request's criteria, one by one, on one stored movie
SelectedByList(m, req) ==
    /\ req.title # None => WhereTitle(m, Val(req.title))
    /\ req.genre # None => WhereGenre(m, Val(req.genre))
    /\ req.adult # None => WhereAdult(m, Val(req.adult))
    /\ (req.status # None /\ Strip(Val(req.status)) # <<>>)
          => WhereStatus(m, Val(req.status))
    /\ req.min_vote_average # None => WhereMinVote(m, Val(req.min_vote_average))

SelectedByRating(m, req) ==
    /\ m.vote_average # None
    /\ req.min_rating # None => WhereMinVote(m, Val(req.min_rating))
    /\ req.max_rating # None => WhereMaxVote(m, Val(req.max_rating))

Selected(m) ==
    CASE resp.op = "list_movies" -> SelectedByList(m, resp.req)
      [] resp.op = "by_genre"    -> WhereGenre(m, resp.req.genre)
      [] resp.op = "by_rating"   -> SelectedByRating(m, resp.req)

MatchingRows == {i \in DOMAIN movies : Selected(movies[i])}

\* the answer's total for the same criteria with another skip and limit
TotalWith(skip, limit) ==
    CASE resp.op = "list_movies" ->
           get_movies(movies, skip, limit, resp.req.title, resp.req.genre,
                      resp.req.adult,
                      IF Truthy(resp.req.status)
                      THEN Some(Lower(Strip(Val(resp.req.status)))) ELSE None,
                      resp.req.min_vote_average).total
      [] resp.op = "by_genre" ->
           get_movies_by_genre(movies, resp.req.genre, skip, limit).total
      [] resp.op = "by_rating" ->
           get_movies_by_rating(movies, resp.req.min_rating, resp.req.max_rating,
                                skip, limit).total

C2_PageLength ==
    Paged =>
       /\ Len(resp.body.items)
            = Min(Min(resp.req.limit, 100), Max(0, resp.body.total - resp.req.skip))
       /\ resp.req.skip >= resp.body.total => resp.body.items = <<>>

\* C2 witness: a limit above the cap answered with exactly the cap's number of
\* items although more rows match.
C2_Witness ==
    /\ Paged
    /\ resp.req.limit > 100
    /\ Len(resp.body.items) = 100
    /\ resp.body.total - resp.req.skip > 100

\* s contains t as a contiguous run of characters
Contains(s, t) ==
    \E i \in 0..(Len(s) - Len(t)) : SubSeq(s, i + 1, i + Len(t)) = t

\* what each criterion of GET /movies asks of a movie
SatisfiesTitle(m, title) == Contains(Lower(m.title), Lower(title))

SatisfiesGenre(m, genre) ==
    m.genres # None /\ Contains(Lower(Val(m.genres)), Lower(genre))

SatisfiesAll(m, req) ==
    /\ req.title # None => SatisfiesTitle(m, Val(req.title))
    /\ req.genre # None => SatisfiesGenre(m, Val(req.genre))
    /\ req.adult # None => m.adult = req.adult
    /\ (req.status # None /\ Strip(Val(req.status)) # <<>>)
          => m.status = Some(Lower(Strip(Val(req.status))))
    /\ req.min_vote_average # None
          => (m.vote_average # None
              /\ Val(m.vote_average) >= Val(req.min_vote_average))

NoCriterion(req) ==
    /\ req.title = None /\ req.genre = None /\ req.adult = None
    /\ req.status = None /\ req.min_vote_average = None

\* C3: in GET /movies the supplied criteria (title substring, genre substring, adult
\* flag, status, minimum vote_average) combine by AND and an absent criterion
\* imposes nothing: every returned movie satisfies all supplied criteria, every
\* stored movie satisfying all of them is counted in total, and with no criterion
\* every stored movie matches.
C3_CriteriaCombineByAnd ==
    (resp.op = "list_movies" /\ resp.code = 200) =>
       /\ \A i \in DOMAIN resp.body.items : SatisfiesAll(resp.body.items[i], resp.req)
       /\ resp.body.total
            = Cardinality({i \in DOMAIN movies : SatisfiesAll(movies[i], resp.req)})
       /\ NoCriterion(resp.req) => resp.body.total = Len(movies)

----------------------------------------------------------------------------
(* crud/movie.py, routes/movies.py: similar movies *)

\* get_movie_by_title: the first row whose title is LIKE %title%, or None
get_movie_by_title(db, title) ==
    LET found == SelectSeq(db, LAMBDA m : WhereTitle(m, title))
    IN  IF found = <<>> THEN None ELSE Some(found[1])

split_tokens_untrimmed(value) ==
    IF ~Truthy(value) THEN {}
    ELSE LET parts == SplitComma(Val(value), <<>>)
         IN  {parts[i] : i \in {j \in DOMAIN parts : Strip(parts[j]) # <<>>}}

\* _split_tokens: {t.strip() for t in value.split(",") if t.strip()}
split_tokens(value) ==
    IF ~Truthy(value) THEN {}
    ELSE LET parts == SplitComma(Val(value), <<>>)
         IN  {Strip(parts[i]) : i \in {j \in DOMAIN parts : Strip(parts[j]) # <<>>}}

\* sorted(S) for a set of str
RECURSIVE sorted(_)
sorted(S) ==
    IF S = {} THEN <<>>
    ELSE LET least == CHOOSE t \in S : \A u \in S \ {t} : TextLess(t, u)
         IN  <<least>> \o sorted(S \ {least})

\* score = len(shared_g) * 2 + len(shared_k)
score_of(shared_g, shared_k) == Len(shared_g) * 2 + Len(shared_k)

candidates_any_status(db, ref_movie) ==
    SelectSeq(db, LAMBDA m : m.id # ref_movie.id)

\* select(Movie).where(Movie.id != ref_movie.id).where(Movie.status == "released")
candidates_of(db, ref_movie) ==
    SelectSeq(db, LAMBDA m : m.id # ref_movie.id /\ m.status = Some(RELEASED))

\* movie_dict[x.id]
movie_by_id(rows, id) == rows[CHOOSE i \in DOMAIN rows : rows[i].id = id]

\* vote_average or 0
vote_or_zero(m) == IF m.vote_average = None THEN 0 ELSE Val(m.vote_average)

key_less_score_first(cands, x, y) ==
    LET rx == 0 - vote_or_zero(movie_by_id(cands, x.id))
        ry == 0 - vote_or_zero(movie_by_id(cands, y.id))
        sx == 0 - x.similarity_score
        sy == 0 - y.similarity_score
    IN  \/ sx < sy
        \/ sx = sy /\ rx < ry
        \/ sx = sy /\ rx = ry /\ TextLess(Lower(x.title), Lower(y.title))

\* the sort key (-(vote_average or 0), -similarity_score, title.lower()): x before y
key_less(cands, x, y) ==
    LET rx == 0 - vote_or_zero(movie_by_id(cands, x.id))
        ry == 0 - vote_or_zero(movie_by_id(cands, y.id))
        sx == 0 - x.similarity_score
        sy == 0 - y.similarity_score
    IN  \/ rx < ry
        \/ rx = ry /\ sx < sy
        \/ rx = ry /\ sx = sy /\ TextLess(Lower(x.title), Lower(y.title))

\* items.sort(key=...): a stable sort
RECURSIVE sort_items(_, _)
sort_items(cands, its) ==
    IF its = <<>> THEN <<>>
    ELSE LET rest == sort_items(cands, SubSeq(its, 1, Len(its) - 1))
             x    == its[Len(its)]
             k    == Cardinality({i \in DOMAIN rest : ~key_less(cands, x, rest[i])})
         IN  SubSeq(rest, 1, k) \o <<x>> \o SubSeq(rest, k + 1, Len(rest))

get_similar_movies(db, ref_movie, limit, min_shared_tokens) ==
    LET ref_genres   == split_tokens(ref_movie.genres)
        ref_keywords == split_tokens(ref_movie.keywords)
        candidates   == candidates_of(db, ref_movie)
        item(m) ==
            LET shared_g == sorted(ref_genres \cap split_tokens(m.genres))
                shared_k == sorted(ref_keywords \cap split_tokens(m.keywords))
            IN  [id |-> m.id, title |-> m.title,
                 shared_genres |-> shared_g, shared_keywords |-> shared_k,
                 similarity_score |-> score_of(shared_g, shared_k)]
        all   == [i \in DOMAIN candidates |-> item(candidates[i])]
        its   == SelectSeq(all, LAMBDA x : x.similarity_score >= min_shared_tokens)
        done  == sort_items(candidates, its)
    IN  SubSeq(done, 1, Min(limit, Len(done)))

\* GET /movies/by-title/{title}/similar
get_similar_movies_by_title_endpoint(Titles, SimLimits, MinTokens) ==
    /\ resp = NoResp
    /\ \E title \in Titles, limit \in SimLimits, min_shared_tokens \in MinTokens :
         LET req == [title |-> title, limit |-> limit,
                     min_shared_tokens |-> min_shared_tokens]
             ref == get_movie_by_title(movies, title)
         IN  IF limit < 1 \/ limit > 50 \/ min_shared_tokens < 1
             THEN resp' = [op |-> "similar", req |-> req, code |-> 422]
             ELSE IF ref = None
             THEN resp' = [op |-> "similar", req |-> req, code |-> 404]
             ELSE resp' = [op |-> "similar", req |-> req, code |-> 200,
                           body |-> [movie_id |-> Val(ref).id,
                                     reference_title |-> Val(ref).title,
                                     items |-> get_similar_movies(
                                                 movies, Val(ref), limit,
                                                 min_shared_tokens)]]
    /\ UNCHANGED <<movies, lists, items>>

----------------------------------------------------------------------------
(* The similarity machine: a movie table and the similar-movies endpoint *)

MaxSimilarMovies == 3

T_heist == <<"h","e","i","s","t">>

T_noir == <<"n","o","i","r">>

Comma == <<",">>

\* bodies of POST /movies for the similarity machine
SimilarPayloads ==
    { Movie(<<"A","b">>, Some(T_Action \o Comma \o T_Drama),
            Some(T_heist \o Comma \o T_noir), Some(RELEASED), Some(8), None),
      Movie(<<"B">>, Some(T_Action \o Comma \o T_Comedy),
            Some(T_heist), Some(RELEASED), Some(6), None),
      Movie(<<"a">>, Some(<<" ">> \o T_Action \o <<" ", ",", " ", ",">> \o T_Action),
            Some(<<" ">> \o T_heist \o <<" ">>), Some(RELEASED), Some(6), None),
      Movie(<<"C">>, Some(T_Drama), None, Some(RELEASED), Some(8), None),
      Movie(<<"D">>, Some(T_Action \o Comma \o T_Drama),
            Some(T_heist \o Comma \o T_noir), Some(NOT_RELEASED), Some(9), None),
      Movie(<<"E">>, Some(Lower(T_Action) \o Comma \o T_Comedy),
            None, Some(RELEASED), None, None),
      Movie(<<"F">>, Some(T_Drama), Some(T_noir), None, Some(7), None) }

SimilarTitles == {<<"a">>, <<"b">>, <<"z","z">>, <<"_">>}

SimilarLimits == {0, 1, 2, 3}

MinSharedTokens == {1, 3}

InitSimilar ==
    /\ movies = <<>>
    /\ lists = {}
    /\ items = {}
    /\ resp = NoResp

CreateMovieS == create_movie_endpoint(SimilarPayloads, MaxSimilarMovies)

Similar ==
    get_similar_movies_by_title_endpoint(SimilarTitles, SimilarLimits, MinSharedTokens)

NextSimilar == CreateMovieS \/ Similar \/ Respond

SpecSimilar == InitSimilar /\ [][NextSimilar]_vars

----------------------------------------------------------------------------
(* Claims about similar movies (checked under SpecSimilar) *)

SimilarOk == resp.op = "similar" /\ resp.code = 200

Range(seq) == {seq[i] : i \in DOMAIN seq}

StoredById(id) == movies[CHOOSE i \in DOMAIN movies : movies[i].id = id]

RefMovie == StoredById(resp.body.movie_id)

\* the tokens of a comma-joined field: each maximal comma-free stretch of the
\* text, trimmed, unless nothing is left of it
TokensOf(field) ==
    IF field = None THEN {}
    ELSE LET v == Val(field)
             stretches ==
               {p \in (1..Len(v)) \X (1..Len(v)) :
                  /\ p[1] <= p[2]
                  /\ \A n \in p[1]..p[2] : v[n] # ","
                  /\ (p[1] = 1 \/ v[p[1] - 1] = ",")
                  /\ (p[2] = Len(v) \/ v[p[2] + 1] = ",")}
         IN  {Strip(SubSeq(v, p[1], p[2])) : p \in stretches} \ {<<>>}

SharedGenres(a, b) == TokensOf(a.genres) \cap TokensOf(b.genres)

SharedKeywords(a, b) == TokensOf(a.keywords) \cap TokensOf(b.keywords)

\* C4: for the reference movie and every returned candidate, shared_genres is the
\* intersection of the two genre token sets, shared_keywords the intersection of
\* the two keyword token sets (tokens: comma-separated parts, trimmed, empty parts
\* dropped, duplicates collapsed, compared as exact strings), and
\* similarity_score = 2 * |shared_genres| + |shared_keywords|.
C4_SharedTokensAndScore ==
    SimilarOk =>
      \A n \in DOMAIN resp.body.items :
         LET x == resp.body.items[n]
             c == StoredById(x.id)
         IN  /\ Range(x.shared_genres) = SharedGenres(RefMovie, c)
             /\ Len(x.shared_genres) = Cardinality(SharedGenres(RefMovie, c))
             /\ Range(x.shared_keywords) = SharedKeywords(RefMovie, c)
             /\ Len(x.shared_keywords) = Cardinality(SharedKeywords(RefMovie, c))
             /\ x.similarity_score
                  = 2 * Len(x.shared_genres) + Len(x.shared_keywords)

\* C4 witness: a returned candidate sharing a genre and a keyword with the
\* reference, whose stored fields carry blanks, an empty part and a repeated token.
C4_Witness ==
    /\ SimilarOk
    /\ \E n \in DOMAIN resp.body.items :
          LET x == resp.body.items[n]
              c == StoredById(x.id)
          IN  /\ x.similarity_score = 3
              /\ x.shared_genres = <<T_Action>>
              /\ x.shared_keywords = <<T_heist>>
              /\ Val(c.keywords) # T_heist
              /\ Len(SplitComma(Val(c.genres), <<>>)) = 3

\* C5: every returned item is a stored movie whose status is exactly 'released',
\* whose id differs from the reference's, and whose similarity_score is at least
\* min_shared_tokens; so with a minimum of 1 it shares at least one token.
C5_OnlyReleasedOthersAboveMinimum ==
    SimilarOk =>
      \A n \in DOMAIN resp.body.items :
         LET x == resp.body.items[n]
         IN  /\ \E i \in DOMAIN movies :
                   /\ movies[i].id = x.id
                   /\ movies[i].title = x.title
                   /\ movies[i].status = Some(RELEASED)
                   /\ SharedGenres(RefMovie, movies[i])
                         \cup SharedKeywords(RefMovie, movies[i]) # {}
             /\ x.id # resp.body.movie_id
             /\ x.similarity_score >= resp.req.min_shared_tokens

\* the score the claim gives a stored movie against the reference
ScoreAgainstRef(m) ==
    2 * Cardinality(SharedGenres(RefMovie, m)) + Cardinality(SharedKeywords(RefMovie, m))

\* C5 witness: an answer with an item, given while the table also holds a movie
\* that is not released and scores at least the minimum, as the reference itself
\* does; neither is among the items.
C5_Witness ==
    /\ SimilarOk
    /\ resp.body.items # <<>>
    /\ \E i \in DOMAIN movies :
          /\ movies[i].status = Some(NOT_RELEASED)
          /\ ScoreAgainstRef(movies[i]) >= resp.req.min_shared_tokens
    /\ ScoreAgainstRef(RefMovie) >= resp.req.min_shared_tokens

\* the stored movies that qualify as similar to the reference
Qualifying ==
    {i \in DOMAIN movies :
        /\ movies[i].id # RefMovie.id
        /\ movies[i].status = Some(RELEASED)
        /\ ScoreAgainstRef(movies[i]) >= resp.req.min_shared_tokens}

RatingOf(m) == IF m.vote_average = None THEN 0 ELSE Val(m.vote_average)

\* a ranks strictly before b: higher rating, then higher score, then the title
\* that comes first ignoring case
RanksBefore(a, b) ==
    \/ RatingOf(a) > RatingOf(b)
    \/ RatingOf(a) = RatingOf(b) /\ ScoreAgainstRef(a) > ScoreAgainstRef(b)
    \/ /\ RatingOf(a) = RatingOf(b)
       /\ ScoreAgainstRef(a) = ScoreAgainstRef(b)
       /\ TextLess(Lower(a.title), Lower(b.title))

ReturnedIds == {resp.body.items[n].id : n \in DOMAIN resp.body.items}

\* C6: the answer is the first `limit` entries of the qualifying candidates sorted
\* by vote_average descending (missing counted as 0), then similarity_score
\* descending, then title ascending ignoring case: at most `limit` items, each a
\* qualifying candidate listed once, in rank order, and no candidate left out
\* ranks before a returned one.
C6_RankedAndCapped ==
    SimilarOk =>
      LET its == resp.body.items
      IN  /\ Len(its) = Min(resp.req.limit, Cardinality(Qualifying))
          /\ Cardinality(ReturnedIds) = Len(its)
          /\ ReturnedIds \subseteq {movies[i].id : i \in Qualifying}
          /\ \A n1, n2 \in DOMAIN its :
                n1 < n2 => ~RanksBefore(StoredById(its[n2].id), StoredById(its[n1].id))
          /\ \A i \in Qualifying :
                movies[i].id \notin ReturnedIds =>
                   \A n \in DOMAIN its : ~RanksBefore(movies[i], StoredById(its[n].id))

\* C6 witness: two qualifying candidates of equal score, the later-stored one rated
\* higher; the limit of 1 returns the higher-rated one and cuts the other.
C6_Witness ==
    /\ SimilarOk
    /\ resp.req.limit = 1
    /\ Len(resp.body.items) = 1
    /\ \E i \in Qualifying :
          LET top == StoredById(resp.body.items[1].id)
          IN  /\ movies[i].id \notin ReturnedIds
              /\ movies[i].id < top.id
              /\ ScoreAgainstRef(movies[i]) = ScoreAgainstRef(top)
              /\ RatingOf(movies[i]) < RatingOf(top)

----------------------------------------------------------------------------
(* crud/movie_list.py: the title resolver *)

\* the loop over titles: strip, skip empty, skip a key whose upper() was seen
RECURSIVE normalise_loop(_, _, _)
normalise_loop(titles, seen, normalised_titles) ==
    IF titles = <<>> THEN normalised_titles
    ELSE LET key       == Strip(Head(titles))
             key_upper == Upper(key)
         IN  IF key = <<>> THEN normalise_loop(Tail(titles), seen, normalised_titles)
             ELSE IF key_upper \in seen
             THEN normalise_loop(Tail(titles), seen, normalised_titles)
             ELSE normalise_loop(Tail(titles), seen \cup {key_upper},
                                 Append(normalised_titles, key))

\* a normalisation that would strip and skip empty titles but keep repeats
normalise_titles_keep_repeats(titles) ==
    SelectSeq([n \in DOMAIN titles |-> Strip(titles[n])], LAMBDA key : key # <<>>)

normalise_titles(titles) == normalise_loop(titles, {}, <<>>)

\* db.query(Movie).filter(Movie.title.in_(normalised_titles)).order_by(asc(Movie.title)):
\* the rows whose title equals one of the titles, in every order that is ascending
\* by title (rows of equal title come in an order SQL leaves open)
title_in_query(db, normalised_titles) ==
    LET hit == {i \in DOMAIN db :
                  \E n \in DOMAIN normalised_titles : db[i].title = normalised_titles[n]}
        k   == Cardinality(hit)
        orders == {p \in [1..k -> hit] :
                     /\ \A a, b \in 1..k : a # b => p[a] # p[b]
                     /\ \A a, b \in 1..k :
                           a < b => ~TextLess(db[p[b]].title, db[p[a]].title)}
    IN  {[n \in 1..k |-> db[p[n]]] : p \in orders}

\* movies_by_title.get(t.upper()) over {m.title.upper(): m for m in movies}:
\* the last row of that key, or None
by_title_get(rows, t) ==
    LET at == {i \in DOMAIN rows : Upper(rows[i].title) = Upper(t)}
    IN  IF at = {} THEN None
        ELSE Some(rows[CHOOSE i \in at : \A j \in at : j <= i])

order_by_input_strict(rows, normalised_titles) ==
    LET found == SelectSeq(normalised_titles, LAMBDA t : by_title_get(rows, t) # None)
    IN  [raised |-> Len(found) < Len(normalised_titles),
         movies |-> [n \in DOMAIN found |-> Val(by_title_get(rows, found[n]))]]

order_by_input_unordered(rows, normalised_titles) ==
    [raised |-> FALSE, movies |-> rows]

\* the second loop: for t in normalised_titles, append the movie found, if any;
\* raised tells whether the function ended in an exception
order_by_input(rows, normalised_titles) ==
    LET found == SelectSeq(normalised_titles, LAMBDA t : by_title_get(rows, t) # None)
    IN  [raised |-> FALSE,
         movies |-> [n \in DOMAIN found |-> Val(by_title_get(rows, found[n]))]]

\* _resolve_titles_to_movies: the set of its possible results
resolve_titles_to_movies(db, titles) ==
    LET normalised_titles == normalise_titles(titles)
    IN  IF normalised_titles = <<>> THEN {[raised |-> FALSE, movies |-> <<>>]}
        ELSE {order_by_input(rows, normalised_titles) :
                 rows \in title_in_query(db, normalised_titles)}

----------------------------------------------------------------------------
(* crud/movie_list.py, routes/lists.py: curated lists *)

Ids(rows) == {r.id : r \in rows}

get_list_by_name_nocase(tbl, name) ==
    IF \E l \in tbl : Upper(l.name) = Upper(name)
    THEN Some(CHOOSE l \in tbl : Upper(l.name) = Upper(name)) ELSE None

get_list_by_name_any(tbl, name) ==
    IF tbl # {} THEN Some(CHOOSE l \in tbl : TRUE) ELSE None

\* get_list_by_name: the row of that name, or None
get_list_by_name(tbl, name) ==
    IF \E l \in tbl : l.name = name
    THEN Some(CHOOSE l \in tbl : l.name = name) ELSE None

\* MovieList.items: the list's item rows, order_by position
RECURSIVE by_position(_)
by_position(rows) ==
    IF rows = {} THEN <<>>
    ELSE LET first == CHOOSE r \in rows : \A q \in rows : r.position <= q.position
         IN  <<first>> \o by_position(rows \ {first})

items_of(itbl, list_id) == by_position({r \in itbl : r.list_id = list_id})

\* MovieListRead(id, name, description, movies=[item.movie for item in items])
MovieListRead(movie_list, itbl, db) ==
    LET its == items_of(itbl, movie_list.id)
    IN  [id |-> movie_list.id, name |-> movie_list.name,
         description |-> movie_list.description,
         movies |-> [n \in DOMAIN its |-> movie_by_id(db, its[n].movie_id)]]

new_items_from_zero(itbl, list_id, resolved) ==
    LET base == NewId(Ids(itbl)) - 1
    IN  {[id |-> base + n, list_id |-> list_id, movie_id |-> resolved[n].id,
          position |-> n - 1] : n \in DOMAIN resolved}

\* for position, movie in enumerate(movies, start=1): MovieListItem(...); add_all
new_items(itbl, list_id, resolved) ==
    LET base == NewId(Ids(itbl)) - 1
    IN  {[id |-> base + n, list_id |-> list_id, movie_id |-> resolved[n].id,
          position |-> n] : n \in DOMAIN resolved}

\* POST /lists
create_movie_list(Names, Descriptions, TitleLists) ==
    /\ resp = NoResp
    /\ \E name \in Names, description \in Descriptions, movie_titles \in TitleLists :
         LET req == [name |-> name, description |-> description,
                     movie_titles |-> movie_titles]
         IN  IF get_list_by_name(lists, name) # None
             THEN /\ resp' = [op |-> "create_list", req |-> req, code |-> 409]
                  /\ UNCHANGED <<lists, items>>
             ELSE \E r \in resolve_titles_to_movies(movies, movie_titles) :
                    IF r.raised
                    THEN /\ resp' = [op |-> "create_list", req |-> req, code |-> 500]
                         /\ UNCHANGED <<lists, items>>
                    ELSE LET movie_list == [id |-> NewId(Ids(lists)), name |-> name,
                                            description |-> description]
                             itbl == items \cup new_items(items, movie_list.id, r.movies)
                         IN  /\ lists' = lists \cup {movie_list}
                             /\ items' = itbl
                             /\ resp' = [op |-> "create_list", req |-> req,
                                         code |-> 201, resolved |-> r.movies,
                                         before |-> <<>>,
                                         body |-> MovieListRead(movie_list, itbl, movies)]
    /\ UNCHANGED movies

\* GET /lists/{name}
get_movie_list(Names) ==
    /\ resp = NoResp
    /\ \E name \in Names :
         LET req == [name |-> name]
             movie_list == get_list_by_name(lists, name)
         IN  IF movie_list = None
             THEN resp' = [op |-> "get_list", req |-> req, code |-> 404]
             ELSE resp' = [op |-> "get_list", req |-> req, code |-> 200,
                           body |-> MovieListRead(Val(movie_list), items, movies)]
    /\ UNCHANGED <<movies, lists, items>>

update_list_merge(itbl, list_id) == itbl

delete_items_all(itbl, list_id) == {}

\* db.query(MovieListItem).filter(MovieListItem.list_id == movie_list.id).delete()
delete_items_of(itbl, list_id) == {r \in itbl : r.list_id # list_id}

\* an update that would write the description also when none is supplied
set_description_always(movie_list, description) ==
    [movie_list EXCEPT !.description = description]

\* if description is not None: movie_list.description = description
set_description(movie_list, description) ==
    IF description # None
    THEN [movie_list EXCEPT !.description = description]
    ELSE movie_list

\* PUT /lists/{name}
update_movie_list(Names, Descriptions, TitleLists) ==
    /\ resp = NoResp
    /\ \E name \in Names, description \in Descriptions,
          movie_titles \in {None} \cup {Some(t) : t \in TitleLists} :
         LET req == [name |-> name, description |-> description,
                     movie_titles |-> movie_titles]
             found == get_list_by_name(lists, name)
         IN  IF found = None
             THEN /\ resp' = [op |-> "update_list", req |-> req, code |-> 404]
                  /\ UNCHANGED <<lists, items>>
             ELSE LET old == Val(found)
                      movie_list == set_description(old, description)
                      before == items_of(items, old.id)
                  IN  IF movie_titles = None
                      THEN /\ lists' = (lists \ {old}) \cup {movie_list}
                           /\ UNCHANGED items
                           /\ resp' = [op |-> "update_list", req |-> req, code |-> 200,
                                       before |-> before,
                                       body |-> MovieListRead(movie_list, items, movies)]
                      ELSE \E r \in resolve_titles_to_movies(movies, Val(movie_titles)) :
                             IF r.raised
                             THEN /\ resp' = [op |-> "update_list", req |-> req,
                                              code |-> 500]
                                  /\ UNCHANGED <<lists, items>>
                             ELSE LET kept == delete_items_of(items, old.id)
                                      itbl == kept \cup new_items(kept, old.id, r.movies)
                                  IN  /\ lists' = (lists \ {old}) \cup {movie_list}
                                      /\ items' = itbl
                                      /\ resp' = [op |-> "update_list", req |-> req,
                                                  code |-> 200, resolved |-> r.movies,
                                                  before |-> before,
                                                  body |-> MovieListRead(movie_list,
                                                                         itbl, movies)]
    /\ UNCHANGED movies

\* DELETE /lists/{name}: db.delete(movie_list) with cascade "all, delete-orphan"
delete_movie_list(Names) ==
    /\ resp = NoResp
    /\ \E name \in Names :
         LET req == [name |-> name]
             movie_list == get_list_by_name(lists, name)
         IN  IF movie_list = None
             THEN /\ resp' = [op |-> "delete_list", req |-> req, code |-> 404]
                  /\ UNCHANGED <<lists, items>>
             ELSE /\ lists' = lists \ {Val(movie_list)}
                  /\ items' = delete_items_of(items, Val(movie_list).id)
                  /\ resp' = [op |-> "delete_list", req |-> req, code |-> 204,
                              id |-> Val(movie_list).id,
                              before |-> items_of(items, Val(movie_list).id)]
    /\ UNCHANGED movies

----------------------------------------------------------------------------
(* The list machine: movies, curated lists and their items *)

MaxListMovies == 2

MaxTitles == 3

\* bodies of POST /movies for the list machine: titles only
ListPayloads ==
    { Movie(<<"I","n">>, None, None, None, None, None),
      Movie(<<"i","n">>, None, None, None, None, None),
      Movie(<<"I","t">>, None, None, None, None, None) }

\* titles a list request may name: stored forms, another letter case, padded,
\* blank, and one no movie carries
RequestTitles == { <<"I","n">>, <<"i","n">>, <<" ","I","t"," ">>, <<" ">>, <<"Z","z">> }

RECURSIVE SeqsUpTo(_, _)
SeqsUpTo(S, n) ==
    IF n = 0 THEN {<<>>}
    ELSE LET shorter == SeqsUpTo(S, n - 1)
         IN  shorter \cup {Append(t, x) : t \in shorter, x \in S}

TitleLists == SeqsUpTo(RequestTitles, MaxTitles)

ListNames == { <<"L">> }

Descriptions == {None, Some(<<"d">>)}

Init ==
    /\ movies = <<>>
    /\ lists = {}
    /\ items = {}
    /\ resp = NoResp

CreateMovieL == create_movie_endpoint(ListPayloads, MaxListMovies)

CreateList == create_movie_list(ListNames, Descriptions, TitleLists)

GetList == get_movie_list(ListNames)

UpdateList == update_movie_list(ListNames, Descriptions, TitleLists)

DeleteList == delete_movie_list(ListNames)

Next == CreateMovieL \/ CreateList \/ GetList \/ UpdateList \/ DeleteList \/ Respond

Spec == Init /\ [][Next]_vars

----------------------------------------------------------------------------
(* Claims C7-C10: the title resolver and list updates, over Spec *)

\* the last answer is a list written from a title set
ListWrite ==
    /\ resp.op \in {"create_list", "update_list"}
    /\ resp.code \in {200, 201}
    /\ "resolved" \in DOMAIN resp

\* the titles of the request behind the last answer
GivenTitles ==
    IF resp.op = "create_list" THEN resp.req.movie_titles
    ELSE Val(resp.req.movie_titles)

Folded(t) == Upper(Strip(t))

\* the first place in the request where a title of that case-folded form stands
FirstPlace(folded) ==
    CHOOSE i \in DOMAIN GivenTitles :
        /\ Folded(GivenTitles[i]) = folded
        /\ \A j \in DOMAIN GivenTitles : Folded(GivenTitles[j]) = folded => i <= j

Named(m) == \E i \in DOMAIN GivenTitles : Folded(GivenTitles[i]) = Upper(m.title)

\* C7: the resolver trims the titles, ignores those empty after trimming and keeps
\* one movie per case-folded title; the movies come in the order in which their
\* titles first occur in the request, whatever their order in the store, and a
\* first occurrence that after trimming is a stored title is represented.
C7_TrimDedupInputOrder ==
    ListWrite =>
        /\ \A n \in DOMAIN resp.resolved :
              /\ resp.resolved[n].title # <<>>
              /\ Named(resp.resolved[n])
        /\ \A a, b \in DOMAIN resp.resolved :
              a < b => FirstPlace(Upper(resp.resolved[a].title))
                         < FirstPlace(Upper(resp.resolved[b].title))
        /\ \A i \in DOMAIN GivenTitles :
              (/\ FirstPlace(Folded(GivenTitles[i])) = i
               /\ \E k \in DOMAIN movies : movies[k].title = Strip(GivenTitles[i]))
                 => \E n \in DOMAIN resp.resolved :
                       Upper(resp.resolved[n].title) = Folded(GivenTitles[i])

\* C7 witness: three titles, one of them padded and one a repetition in another
\* letter case, resolved to two movies in request order, the reverse of the
\* store's order.
C7_Witness ==
    /\ ListWrite
    /\ Len(GivenTitles) = 3
    /\ \E i \in DOMAIN GivenTitles : Strip(GivenTitles[i]) # GivenTitles[i]
    /\ \E i, j \in DOMAIN GivenTitles :
          /\ i < j
          /\ GivenTitles[i] # GivenTitles[j]
          /\ Folded(GivenTitles[i]) = Folded(GivenTitles[j])
    /\ Len(resp.resolved) = 2
    /\ resp.resolved[1].id > resp.resolved[2].id

\* C8: a title of the request that, trimmed, equals a stored movie's title up to
\* letter case resolves to a movie of that title.
C8_CaseInsensitiveLookup ==
    ListWrite =>
        \A i \in DOMAIN GivenTitles :
            (\E k \in DOMAIN movies :
                /\ Strip(GivenTitles[i]) # <<>>
                /\ Upper(movies[k].title) = Folded(GivenTitles[i]))
               => \E n \in DOMAIN resp.resolved :
                     Upper(resp.resolved[n].title) = Folded(GivenTitles[i])

\* the movie ids of the items the answered list holds, by position
PersistedIds ==
    LET its == items_of(items, resp.body.id)
    IN  [n \in DOMAIN its |-> its[n].movie_id]

ResolvedIds == [n \in DOMAIN resp.resolved |-> resp.resolved[n].id]

\* C9: creating and updating a list never end in a server error, whatever titles
\* are named; when the list is written its items are exactly the resolved movies,
\* which are also the movies of the answer, and no item stands for a title that
\* matches no stored movie.
C9_UnmatchedTitlesDropped ==
    /\ resp.op = "create_list" => resp.code \in {201, 409}
    /\ resp.op = "update_list" => resp.code \in {200, 404}
    /\ ListWrite =>
          /\ PersistedIds = ResolvedIds
          /\ resp.body.movies = resp.resolved
          /\ \A n \in DOMAIN resp.resolved :
                /\ Named(resp.resolved[n])
                /\ \E k \in DOMAIN movies : movies[k] = resp.resolved[n]

\* C9 witness: a list created from titles of which one matches no stored movie
\* and another does; the list holds the matched movie.
C9_Witness ==
    /\ ListWrite
    /\ resp.op = "create_list"
    /\ \E i \in DOMAIN GivenTitles :
          /\ Strip(GivenTitles[i]) # <<>>
          /\ \A k \in DOMAIN movies : Upper(movies[k].title) # Folded(GivenTitles[i])
    /\ Len(resp.resolved) >= 1
    /\ PersistedIds = ResolvedIds

UpdatedWithTitles ==
    /\ resp.op = "update_list"
    /\ resp.code = 200
    /\ resp.req.movie_titles # None

\* C10: after an update that names titles the list's items are the resolved
\* movies, one item each, at positions 1..N in resolved order; an item the list
\* had before remains only if its movie was resolved again.
C10_UpdateReplacesItems ==
    UpdatedWithTitles =>
        LET mine == {i \in items : i.list_id = resp.body.id}
        IN  /\ Cardinality(mine) = Len(resp.resolved)
            /\ \A n \in DOMAIN resp.resolved :
                  \E i \in mine : i.position = n /\ i.movie_id = resp.resolved[n].id
            /\ \A b \in Range(resp.before) :
                  (\E i \in mine : i.movie_id = b.movie_id)
                     => \E n \in DOMAIN resp.resolved : resp.resolved[n].id = b.movie_id

\* C10 witness: an update naming titles on a list that held two items, one of
\* whose movies is not resolved from the new titles; the list is left with one.
C10_Witness ==
    /\ UpdatedWithTitles
    /\ Len(resp.before) = 2
    /\ \E b \in Range(resp.before) :
          \A n \in DOMAIN resp.resolved : resp.resolved[n].id # b.movie_id
    /\ Len(resp.resolved) = 1
    /\ Cardinality({i \in items : i.list_id = resp.body.id}) = 1

----------------------------------------------------------------------------
(* Claim C11: positions of stored items, over Spec *)

ItemsOfList(l) == {i \in items : i.list_id = l.id}

\* C11: in every state reached by creating, updating and deleting lists, the
\* positions of each stored list's items are exactly 1..N, N the number of its
\* items: no gap and no position twice.
C11_PositionsAreOneToN ==
    \A l \in lists :
        /\ {i.position : i \in ItemsOfList(l)} = 1..Cardinality(ItemsOfList(l))
        /\ \A i, j \in ItemsOfList(l) : i.position = j.position => i = j

\* C11 witness: a list that held one item has just been updated to hold two.
C11_Witness ==
    /\ resp.op = "update_list"
    /\ resp.code = 200
    /\ resp.req.movie_titles # None
    /\ Len(resp.before) = 1
    /\ \E l \in lists : l.id = resp.body.id /\ Cardinality(ItemsOfList(l)) = 2

----------------------------------------------------------------------------
(* The names machine: lists under two names that differ in letter case only *)

MaxListId == 3

MaxItemId == 3

TwoNames == { <<"L">>, <<"l">> }

NamedTitleLists == { <<>>, <<<<"I","n">>>>, <<<<"I","t">>, <<"I","n">>>> }

\* rowids grow with every insert; requests that would pass the caps are left out
IdsWithin ==
    /\ \A l \in lists : l.id <= MaxListId
    /\ \A i \in items : i.id <= MaxItemId

InitNames ==
    /\ movies = <<>>
    /\ lists = {}
    /\ items = {}
    /\ resp = NoResp

CreateMovieN == create_movie_endpoint(ListPayloads, MaxListMovies)

CreateListN == create_movie_list(TwoNames, Descriptions, NamedTitleLists) /\ IdsWithin'

GetListN == get_movie_list(TwoNames)

UpdateListN == update_movie_list(TwoNames, Descriptions, NamedTitleLists) /\ IdsWithin'

DeleteListN == delete_movie_list(TwoNames)

NextNames ==
    CreateMovieN \/ CreateListN \/ GetListN \/ UpdateListN \/ DeleteListN \/ Respond

SpecNames == InitNames /\ [][NextNames]_vars

----------------------------------------------------------------------------
(* Claims C12, C14, C15: list names, over SpecNames *)

\* a request of one of these kinds is answered in this step
Answers(ops) == resp = NoResp /\ resp'.op \in ops

Stored(name) == \E l \in lists : l.name = name

\* C12: a create-list request naming a stored list (names compared exactly) is
\* answered 409 and changes no list and no item; one naming no stored list is
\* answered 201 and the list is stored with the description given.
C12_CreateConflict ==
    [][ Answers({"create_list"}) =>
          IF Stored(resp'.req.name)
          THEN /\ resp'.code = 409
               /\ lists' = lists
               /\ items' = items
          ELSE /\ resp'.code = 201
               /\ lists' \ lists = {[id |-> resp'.body.id, name |-> resp'.req.name,
                                     description |-> resp'.req.description]}
               /\ lists \subseteq lists' ]_vars

\* C12 witness: a create answered 409 while the list of that name holds an item
\* and a description other than the request's, and a list whose name differs in
\* letter case only is stored beside it.
C12_Witness ==
    /\ resp.op = "create_list"
    /\ resp.code = 409
    /\ resp.req.movie_titles = <<>>
    /\ \E l \in lists :
          /\ l.name = resp.req.name
          /\ l.description # resp.req.description
          /\ \E i \in items : i.list_id = l.id
    /\ \E l \in lists : l.name # resp.req.name /\ Upper(l.name) = Upper(resp.req.name)

\* C14: reading, updating or deleting by a name no stored list carries (names
\* compared exactly) is answered 404 and changes nothing in the store; by a name
\* that is stored it is not answered 404.
C14_UnknownNameNotFound ==
    [][ Answers({"get_list", "update_list", "delete_list"}) =>
          IF Stored(resp'.req.name)
          THEN resp'.code # 404
          ELSE /\ resp'.code = 404
               /\ UNCHANGED <<movies, lists, items>> ]_vars

\* C14 witness: an update answered 404 while a list whose name differs from the
\* requested one in letter case only is stored with an item.
C14_Witness ==
    /\ resp.op = "update_list"
    /\ resp.code = 404
    /\ resp.req.movie_titles # None
    /\ \E l \in lists :
          /\ Upper(l.name) = Upper(resp.req.name)
          /\ \E i \in items : i.list_id = l.id

\* C15: a delete answered 204 removes the list of that name and every item of
\* it, so that no list carries the name and no item refers to the list; the
\* movies, the other lists and their items stay as they were.
C15_DeleteCascades ==
    [][ (Answers({"delete_list"}) /\ resp'.code = 204) =>
          \E gone \in lists :
             /\ gone.name = resp'.req.name
             /\ lists' = lists \ {gone}
             /\ items' = {i \in items : i.list_id # gone.id}
             /\ movies' = movies
             /\ ~ \E l \in lists' : l.name = resp'.req.name
             /\ ~ \E i \in items' : i.list_id = gone.id ]_vars

\* C15 witness: a list that held two items has been deleted, and another list
\* with an item of one of the same movies is still stored.
C15_Witness ==
    /\ resp.op = "delete_list"
    /\ resp.code = 204
    /\ Len(resp.before) = 2
    /\ \A l \in lists : l.id # resp.id
    /\ \E i \in items : \E n \in DOMAIN resp.before :
          i.movie_id = resp.before[n].movie_id

----------------------------------------------------------------------------
(* Concurrent requests on one list.  The endpoints are plain functions, which
   the framework runs on worker threads, each with its own session (deps.py).
   Here resp holds one record per worker.  SQLite gives a connection the write
   lock at its first INSERT/UPDATE/DELETE and keeps it until commit or
   rollback; other connections read the committed tables meanwhile, and each
   SELECT of a session reads the tables as committed at that moment. *)

Workers == {1, 2}

Idle(r) == resp[r].op = "none"

At(r, op, pc) == resp[r].op = op /\ resp[r].pc = pc

\* worker r has written and not yet committed
InTx(r) == ~Idle(r) /\ resp[r].pc = "in_tx"

\* a store without a write lock
NoLock(r) == TRUE

\* no other connection holds SQLite's write lock
LockFree(r) == \A q \in Workers \ {r} : ~InTx(q)

\* what GET /lists/{name} would answer from the committed tables: None for 404
ViewOf(ltbl, itbl, name) ==
    LET l == get_list_by_name(ltbl, name)
    IN  IF l = None THEN None ELSE Some(MovieListRead(Val(l), itbl, movies))

\* every read in progress has the new committed tables among those it overlapped
Observe(rs, ltbl, itbl) ==
    [q \in Workers |->
       IF rs[q].op = "get_list" /\ rs[q].pc = "load"
       THEN [rs[q] EXCEPT !.views = @ \cup {ViewOf(ltbl, itbl, rs[q].req.name)}]
       ELSE rs[q]]

\* POST /lists, routes/lists.py: the existence check
create_movie_list_check(r, Names, Descs, Titles) ==
    /\ Idle(r)
    /\ \E name \in Names, description \in Descs, movie_titles \in Titles :
         LET req == [name |-> name, description |-> description,
                     movie_titles |-> movie_titles]
         IN  IF get_list_by_name(lists, name) # None
             THEN resp' = [resp EXCEPT ![r] = [op |-> "create_list", req |-> req,
                                               pc |-> "done", code |-> 409,
                                               free |-> FALSE]]
             ELSE resp' = [resp EXCEPT ![r] = [op |-> "create_list", req |-> req,
                                               pc |-> "write", free |-> TRUE]]
    /\ UNCHANGED <<movies, lists, items>>

\* create_list up to db.flush(): resolve the titles, INSERT the list row
create_list_flush(r) ==
    /\ At(r, "create_list", "write")
    /\ LockFree(r)
    /\ \E res \in resolve_titles_to_movies(movies, resp[r].req.movie_titles) :
         IF \E l \in lists : l.name = resp[r].req.name
         THEN \* UNIQUE constraint failed: IntegrityError, not handled
              resp' = [resp EXCEPT ![r] = [op |-> "create_list", req |-> resp[r].req,
                                           pc |-> "done", code |-> 500,
                                           free |-> resp[r].free]]
         ELSE resp' = [resp EXCEPT ![r] =
                         [op |-> "create_list", req |-> resp[r].req, pc |-> "in_tx",
                          free |-> resp[r].free, resolved |-> res.movies,
                          movie_list |-> [id |-> NewId(Ids(lists)),
                                          name |-> resp[r].req.name,
                                          description |-> resp[r].req.description]]]
    /\ UNCHANGED <<movies, lists, items>>

\* create_list: add_all(items); db.commit()
create_list_commit(r) ==
    /\ At(r, "create_list", "in_tx")
    /\ LET ltbl == lists \cup {resp[r].movie_list}
           itbl == items \cup new_items(items, resp[r].movie_list.id, resp[r].resolved)
       IN  /\ lists' = ltbl
           /\ items' = itbl
           /\ resp' = Observe([resp EXCEPT ![r].pc = "refresh"], ltbl, itbl)
    /\ UNCHANGED movies

\* PUT /lists/{name}, routes/lists.py: the lookup
update_movie_list_check(r, Names, Descs, Titles) ==
    /\ Idle(r)
    /\ \E name \in Names, description \in Descs,
          movie_titles \in {None} \cup {Some(t) : t \in Titles} :
         LET req == [name |-> name, description |-> description,
                     movie_titles |-> movie_titles]
             found == get_list_by_name(lists, name)
         IN  IF found = None
             THEN resp' = [resp EXCEPT ![r] = [op |-> "update_list", req |-> req,
                                               pc |-> "done", code |-> 404]]
             ELSE resp' = [resp EXCEPT ![r] = [op |-> "update_list", req |-> req,
                                               pc |-> "write",
                                               movie_list |-> Val(found)]]
    /\ UNCHANGED <<movies, lists, items>>

\* update_list: the first statement that writes (the bulk DELETE, or the UPDATE
\* of the description flushed by commit); none when nothing is to change.
\* deleted holds the rows the DELETE removed inside the transaction
update_list_write(r) ==
    /\ At(r, "update_list", "write")
    /\ IF resp[r].req.description = None /\ resp[r].req.movie_titles = None
       THEN resp' = [resp EXCEPT ![r].pc = "refresh"]
       ELSE /\ LockFree(r)
            /\ resp' = [resp EXCEPT ![r] =
                          [op |-> "update_list", req |-> resp[r].req, pc |-> "in_tx",
                           movie_list |-> resp[r].movie_list,
                           deleted |-> IF resp[r].req.movie_titles = None THEN {}
                                       ELSE items \ delete_items_of(
                                                       items, resp[r].movie_list.id)]]
    /\ UNCHANGED <<movies, lists, items>>

\* update_list: resolve, add_all(items), db.commit()
update_list_commit(r) ==
    /\ At(r, "update_list", "in_tx")
    /\ LET req  == resp[r].req
           id   == resp[r].movie_list.id
           ltbl == IF req.description = None THEN lists
                   ELSE {IF l.id = id THEN [l EXCEPT !.description = req.description]
                         ELSE l : l \in lists}
       IN  IF req.movie_titles = None
           THEN /\ lists' = ltbl
                /\ UNCHANGED items
                /\ resp' = Observe([resp EXCEPT ![r].pc = "refresh"], ltbl, items)
           ELSE \E res \in resolve_titles_to_movies(movies, Val(req.movie_titles)) :
                  LET kept == items \ resp[r].deleted
                      itbl == kept \cup new_items(kept, id, res.movies)
                  IN  /\ lists' = ltbl
                      /\ items' = itbl
                      /\ resp' = Observe([resp EXCEPT ![r].pc = "refresh"], ltbl, itbl)
    /\ UNCHANGED movies

\* db.refresh(movie_list) and the MovieListRead the route builds from it
list_write_return(r) ==
    /\ ~Idle(r)
    /\ resp[r].op \in {"create_list", "update_list"}
    /\ resp[r].pc = "refresh"
    /\ LET row == CHOOSE l \in lists : l.id = resp[r].movie_list.id
       IN  resp' = [resp EXCEPT ![r] =
                      [op |-> resp[r].op, req |-> resp[r].req, pc |-> "done",
                       code |-> IF resp[r].op = "create_list" THEN 201 ELSE 200,
                       free |-> resp[r].op = "create_list",
                       body |-> MovieListRead(row, items, movies)]]
    /\ UNCHANGED <<movies, lists, items>>

\* sqlite3.OperationalError (database is locked) while waiting for the write
\* lock or at commit: the exception leaves the endpoint, get_db closes the
\* session and the connection rolls back
operational_error(r) ==
    /\ ~Idle(r)
    /\ resp[r].op \in {"create_list", "update_list"}
    /\ \/ resp[r].pc = "write" /\ ~LockFree(r)
       \/ resp[r].pc = "in_tx"
    /\ resp' = [resp EXCEPT ![r] = [op |-> resp[r].op, req |-> resp[r].req,
                                    pc |-> "done", code |-> 500,
                                    free |-> IF resp[r].op = "create_list"
                                             THEN resp[r].free ELSE FALSE]]
    /\ UNCHANGED <<movies, lists, items>>

\* GET /lists/{name}: get_list_by_name, the SELECT of the list row
get_movie_list_select(r, Names) ==
    /\ Idle(r)
    /\ \E name \in Names :
         LET req == [name |-> name]
             found == get_list_by_name(lists, name)
             views == {ViewOf(lists, items, name)}
         IN  IF found = None
             THEN resp' = [resp EXCEPT ![r] = [op |-> "get_list", req |-> req,
                                               pc |-> "done", code |-> 404,
                                               views |-> views]]
             ELSE resp' = [resp EXCEPT ![r] = [op |-> "get_list", req |-> req,
                                               pc |-> "load", views |-> views,
                                               movie_list |-> Val(found)]]
    /\ UNCHANGED <<movies, lists, items>>

\* selectinload(MovieList.items): the second SELECT, of the list's items
get_movie_list_load(r) ==
    /\ At(r, "get_list", "load")
    /\ resp' = [resp EXCEPT ![r] =
                  [op |-> "get_list", req |-> resp[r].req, pc |-> "done",
                   code |-> 200, views |-> resp[r].views,
                   body |-> MovieListRead(resp[r].movie_list, items, movies)]]
    /\ UNCHANGED <<movies, lists, items>>

\* GET /, main.py: db = SessionLocal() and the SELECT COUNT(*); an exception of
\* the store (the table is locked by a writer) is caught and answered as an error
read_root_count(r) ==
    /\ Idle(r)
    /\ \/ resp' = [resp EXCEPT ![r] =
                     [op |-> "read_root", req |-> <<>>, pc |-> "finally", code |-> 200,
                      body |-> [database_status |-> "connected",
                                movies_count |-> Len(movies)]]]
       \/ /\ ~LockFree(r)
          /\ resp' = [resp EXCEPT ![r] =
                        [op |-> "read_root", req |-> <<>>, pc |-> "finally",
                         code |-> 200,
                         body |-> [database_status |-> "error", movies_count |-> 0]]]
    /\ UNCHANGED <<movies, lists, items>>

\* read_root's finally: db.close(), on the return and on the except path alike
read_root_close(r) ==
    /\ At(r, "read_root", "finally")
    /\ resp' = [resp EXCEPT ![r].pc = "done"]
    /\ UNCHANGED <<movies, lists, items>>

\* a handler that would close the session only after an answer below 400
worker_done_after_success(r) ==
    /\ ~Idle(r)
    /\ resp[r].pc = "done"
    /\ resp[r].code < 400
    /\ resp' = [resp EXCEPT ![r] = NoResp]
    /\ UNCHANGED <<movies, lists, items>>

\* get_db's finally: db.close(); the answer is sent and the worker takes the
\* next request
worker_done(r) ==
    /\ ~Idle(r)
    /\ resp[r].pc = "done"
    /\ resp' = [resp EXCEPT ![r] = NoResp]
    /\ UNCHANGED <<movies, lists, items>>

----------------------------------------------------------------------------
(* The concurrent machine *)

OneName == { <<"L">> }

ConcurrentTitleLists == { <<<<"I","n">>>>, <<<<"I","t">>, <<"I","n">>>> }

CreateDescriptions == { Some(<<"d">>) }

UpdateDescriptions == { None, Some(<<"e">>) }

\* the table holds two movies, created before
InitConcurrent ==
    /\ movies = create_movie(
                   create_movie(<<>>, Movie(<<"I","n">>, None, None, None, None, None)),
                   Movie(<<"I","t">>, None, None, None, None, None))
    /\ lists = {}
    /\ items = {}
    /\ resp = [r \in Workers |-> NoResp]

CreateCheck ==
    \E r \in Workers :
       create_movie_list_check(r, OneName, CreateDescriptions, ConcurrentTitleLists)

CreateFlush == \E r \in Workers : create_list_flush(r)

CreateCommit == \E r \in Workers : create_list_commit(r)

UpdateCheck ==
    \E r \in Workers :
       update_movie_list_check(r, OneName, UpdateDescriptions, ConcurrentTitleLists)

UpdateWrite == \E r \in Workers : update_list_write(r)

UpdateCommit == \E r \in Workers : update_list_commit(r)

WriteReturn == \E r \in Workers : list_write_return(r)

Locked == \E r \in Workers : operational_error(r)

ReadSelect == \E r \in Workers : get_movie_list_select(r, OneName)

ReadLoad == \E r \in Workers : get_movie_list_load(r)

ReadRoot == \E r \in Workers : read_root_count(r)

RootClose == \E r \in Workers : read_root_close(r)

WorkerDone == \E r \in Workers : worker_done(r)

NextConcurrent ==
    \/ CreateCheck \/ CreateFlush \/ CreateCommit
    \/ UpdateCheck \/ UpdateWrite \/ UpdateCommit
    \/ WriteReturn \/ Locked
    \/ ReadSelect \/ ReadLoad
    \/ ReadRoot \/ RootClose
    \/ WorkerDone

SpecConcurrent == InitConcurrent /\ [][NextConcurrent]_vars

\* the steps a worker thread takes by itself once it serves a request
WorkerStep(r) ==
    \/ create_list_flush(r) \/ create_list_commit(r)
    \/ update_list_write(r) \/ update_list_commit(r)
    \/ list_write_return(r) \/ operational_error(r)
    \/ get_movie_list_load(r)
    \/ read_root_close(r)
    \/ worker_done(r)

\* a worker thread that can take a step is scheduled eventually
SpecConcurrentLive ==
    SpecConcurrent /\ \A r \in Workers : WF_vars(WorkerStep(r))

----------------------------------------------------------------------------
(* Claims C13 and C16: concurrent requests, over SpecConcurrent *)

\* worker r has answered a create-list request that found the name free
CreatedWhileFree(r) ==
    /\ resp[r].op = "create_list"
    /\ resp[r].pc = "done"
    /\ resp[r].free

\* C13: whatever the interleaving of two create-list requests of one name that
\* both arrive while the name is free, no two stored lists carry the name, one
\* request is answered 201 and the other 409.
C13_ConcurrentCreateConflict ==
    /\ \A l1, l2 \in lists : l1.name = l2.name => l1 = l2
    /\ \A r, q \in Workers :
          (/\ r # q
           /\ CreatedWhileFree(r)
           /\ CreatedWhileFree(q)
           /\ resp[r].req.name = resp[q].req.name)
             => {resp[r].code, resp[q].code} = {201, 409}

\* the answer of a finished read is one of the committed states of the list that
\* the read overlapped
ReadIsWhole(rec) ==
    (rec.op = "get_list" /\ rec.pc = "done")
       => (IF rec.code = 404 THEN None ELSE Some(rec.body)) \in rec.views

\* worker r ends a create or update in failure in this step
Fails(r) ==
    /\ resp[r].op \in {"create_list", "update_list"}
    /\ resp[r].pc # "done"
    /\ resp'[r].pc = "done"
    /\ resp'[r].code \notin {200, 201}

\* C16: list create and list update with titles are all-or-nothing: a read of
\* the list that runs beside them answers with a complete committed state of
\* the list, the one before or the one after the write, and a write that fails
\* leaves the stored lists and items as they were.
C16_WritesAreAllOrNothing ==
    [][ /\ \A r \in Workers : ReadIsWhole(resp'[r])
        /\ \A r \in Workers : Fails(r) => lists' = lists /\ items' = items ]_vars

----------------------------------------------------------------------------
(* Claims C17-C19: the by-rating query, over SpecQuery *)

ByRatingAnswer == resp.op = "by_rating"

ByRatingOk == ByRatingAnswer /\ resp.code = 200

\* C17: a by-rating request without min_rating and without max_rating is
\* answered 422 and no statement has run on the store for it; a request with a
\* bound and a valid page is answered 200.
C17_NoBoundIsInvalid ==
    ByRatingAnswer =>
        /\ (resp.req.min_rating = None /\ resp.req.max_rating = None)
              => /\ resp.code = 422
                 /\ resp.statements = 0
                 /\ "body" \notin DOMAIN resp
        /\ (/\ resp.req.min_rating # None \/ resp.req.max_rating # None
            /\ resp.req.skip >= 0
            /\ resp.req.limit > 0)
              => resp.code = 200

\* C17 witness: a request with a valid page and no bound, answered 422 over a
\* table that holds rated movies.
C17_Witness ==
    /\ ByRatingAnswer
    /\ resp.req.min_rating = None
    /\ resp.req.max_rating = None
    /\ resp.req.skip >= 0
    /\ resp.req.limit > 0
    /\ resp.code = 422
    /\ \E i \in DOMAIN movies : movies[i].vote_average # None

\* the movie has a rating and the rating lies within the bounds that are given
WithinBounds(m, req) ==
    /\ m.vote_average # None
    /\ \A lo \in req.min_rating : \A v \in m.vote_average : lo <= v
    /\ \A hi \in req.max_rating : \A v \in m.vote_average : v <= hi

\* C18: the matching set of a by-rating request is exactly the movies whose
\* rating is at least min_rating when that is given and at most max_rating when
\* that is given; a movie without rating never matches.
C18_FiltersOnGivenBounds ==
    ByRatingOk =>
        LET matching == {i \in DOMAIN movies : WithinBounds(movies[i], resp.req)}
        IN  /\ resp.body.total = Cardinality(matching)
            /\ \A n \in DOMAIN resp.body.items :
                  \E i \in matching : movies[i] = resp.body.items[n]
            /\ (resp.req.skip = 0 /\ Cardinality(matching) <= Min(resp.req.limit, MAX_LIMIT))
                  => \A i \in matching :
                        \E n \in DOMAIN resp.body.items : resp.body.items[n] = movies[i]

\* C18 witness: a request with max_rating only, over a table that holds a movie
\* rated exactly max_rating, one rated above it and one without rating; the
\* first is among the items.
C18_Witness ==
    /\ ByRatingOk
    /\ resp.req.min_rating = None
    /\ resp.req.max_rating # None
    /\ \E i \in DOMAIN movies : movies[i].vote_average = None
    /\ \E i \in DOMAIN movies :
          /\ movies[i].vote_average # None
          /\ Val(movies[i].vote_average) > Val(resp.req.max_rating)
    /\ \E n \in DOMAIN resp.body.items :
          resp.body.items[n].vote_average = resp.req.max_rating

\* the page that follows the answered one: same criteria, skip + limit
NextPage ==
    get_movies_by_rating(movies, resp.req.min_rating, resp.req.max_rating,
                         resp.req.skip + resp.req.limit, resp.req.limit).movies

\* C19: by-rating answers are ordered by rating, highest first, before they are
\* cut into pages: within the page no item is rated higher than one before it,
\* and no item of the following page is rated higher than an item of this page.
C19_OrderedBeforePaging ==
    ByRatingOk =>
        /\ \A a, b \in DOMAIN resp.body.items :
              a < b => Val(resp.body.items[a].vote_average)
                         >= Val(resp.body.items[b].vote_average)
        /\ \A a \in DOMAIN resp.body.items : \A b \in DOMAIN NextPage :
              Val(resp.body.items[a].vote_average) >= Val(NextPage[b].vote_average)

\* C19 witness: a page whose item is rated higher than the item of the following
\* page although it is stored after it.
C19_Witness ==
    /\ ByRatingOk
    /\ Len(resp.body.items) = 1
    /\ NextPage # <<>>
    /\ Val(resp.body.items[1].vote_average) > Val(NextPage[1].vote_average)
    /\ resp.body.items[1].id > NextPage[1].id

----------------------------------------------------------------------------
(* Claim C20: the reference of a similar-movies request, over SpecSimilar *)

\* a similar-movies request with a valid limit and minimum has been answered
SimilarAnswer ==
    /\ resp.op = "similar"
    /\ resp.code # 422

\* the places of the stored movies whose title contains the text, letter case
\* apart
TitleHolders(text) == {i \in DOMAIN movies : SatisfiesTitle(movies[i], text)}

\* C20: a similar-movies request is answered 404 exactly when no stored title
\* contains the given text, letter case apart; otherwise it is answered 200 with
\* the id and title of the first stored movie whose title contains the text,
\* whether or not any candidate is similar.
C20_ReferenceOrNotFound ==
    SimilarAnswer =>
        LET holders == TitleHolders(resp.req.title)
        IN  IF holders = {}
            THEN resp.code = 404
            ELSE LET first == CHOOSE i \in holders : \A j \in holders : i <= j
                 IN  /\ resp.code = 200
                     /\ resp.body.movie_id = movies[first].id
                     /\ resp.body.reference_title = movies[first].title

----------------------------------------------------------------------------
(* Claims about the find-by-title endpoint (checked under SpecQuery) *)

ByTitleAnswer == resp.op = "by_title"

\* the movies the find-by-title request asks for, in stored order
TitleMatches(title, exact) ==
    SelectSeq(movies, LAMBDA m : IF exact THEN Lower(m.title) = Lower(title)
                                 ELSE Contains(Lower(m.title), Lower(title)))

\* C21: GET /movies/by-title/{title} returns, with exact=false, every movie whose
\* title contains the text without regard to letter case and, with exact=true,
\* every movie whose title equals it without regard to letter case, and no other
\* movie; when no movie matches the endpoint answers 404.
C21_ByTitleMatches ==
    ByTitleAnswer =>
        LET expected == TitleMatches(resp.req.title, resp.req.exact)
        IN  IF expected = <<>>
            THEN resp.code = 404
            ELSE resp.code = 200 /\ resp.body = expected

\* the same statement for texts without the LIKE wildcards '_' and '%'
C21_HoldsWithoutWildcards ==
    (ByTitleAnswer /\ ~Contains(resp.req.title, <<"_">>)
                   /\ ~Contains(resp.req.title, <<"%">>)) =>
        LET expected == TitleMatches(resp.req.title, resp.req.exact)
        IN  IF expected = <<>>
            THEN resp.code = 404
            ELSE resp.code = 200 /\ resp.body = expected

----------------------------------------------------------------------------
(* Claims about the status filter of GET /movies (checked under SpecQuery) *)

\* GET /movies was asked with a status that is no status value after trim and lower
InvalidStatusAsked ==
    /\ resp.op = "list_movies"
    /\ resp.req.status # None
    /\ Lower(Strip(Val(resp.req.status))) \notin MOVIE_STATUS_VALUES

\* C22: a GET /movies request whose status filter is, after trimming and
\* lower-casing, neither 'released' nor 'not released' is rejected as an invalid
\* argument; it is not answered with a successful page.
C22_InvalidStatusRejected ==
    InvalidStatusAsked => resp.code = 422 /\ "body" \notin DOMAIN resp

\* what the handler answers instead: a successful page without items (a status
\* of blanks only is dropped and filters nothing)
C22_AnsweredWithEmptyPage ==
    (InvalidStatusAsked /\ Strip(Val(resp.req.status)) # <<>> /\ resp.req.skip >= 0 /\ resp.req.limit > 0
       /\ (resp.req.min_vote_average # None
             => Val(resp.req.min_vote_average) \in 0..10))
      => /\ resp.code = 200
         /\ resp.body.items = <<>>
         /\ resp.body.total = 0

----------------------------------------------------------------------------
(* crud/movie.py: update_movie, on a MovieUpdate validated by schemas/movie.py *)

\* MovieUpdate is modelled as a record of the fields that were set
\* (movie_in.dict(exclude_unset=True)); every other field keeps its value
update_movie(db, i, data) ==
    [db EXCEPT ![i] =
        [f \in DOMAIN db[i] |->
            IF f \notin DOMAIN data THEN db[i][f]
            ELSE IF f = "title" THEN Val(data[f])
            ELSE data[f]]]

\* MovieUpdate(**fields) followed by update_movie(db, db_movie, movie_in);
\* movies.title is NOT NULL, so a title set to None fails at the commit
update_movie_call(payloads) ==
    /\ resp = NoResp
    /\ \E i \in DOMAIN movies, fields \in payloads :
         LET req == [id |-> movies[i].id, movie_in |-> fields]
             st  == IF "status" \in DOMAIN fields
                    THEN normalise_status(fields.status)
                    ELSE [ok |-> TRUE, value |-> None]
             data == IF "status" \in DOMAIN fields
                     THEN [fields EXCEPT !.status = st.value]
                     ELSE fields
         IN  IF ~st.ok
             THEN /\ resp' = [op |-> "update_movie", req |-> req, code |-> 422]
                  /\ UNCHANGED movies
             ELSE IF "title" \in DOMAIN data /\ data.title = None
             THEN /\ resp' = [op |-> "update_movie", req |-> req, code |-> 500]
                  /\ UNCHANGED movies
             ELSE /\ movies' = update_movie(movies, i, data)
                  /\ resp' = [op |-> "update_movie", req |-> req, code |-> 200,
                              body |-> movies'[i]]
    /\ UNCHANGED <<lists, items>>

----------------------------------------------------------------------------
(* The movie machine: movies are created and updated *)

\* bodies of POST /movies
MoviePayloads ==
    { Movie(<<"I","n">>, None, None,
            Some(<<" ","R","e","l","e","a","s","e","d">>), Some(8), None),
      Movie(<<>>, None, None, Some(Upper(NOT_RELEASED) \o <<" ">>), None, None),
      Movie(<<"T">>, None, None, Some(<<"x">>), Some(6), None),
      Movie(<<"T">>, None, None, None, None, Some(TRUE)) }

\* MovieUpdate objects, by the fields that were set
UpdatePayloads ==
    { [status |-> Some(<<" ">> \o Upper(RELEASED))],
      [status |-> Some(<<"N","o","t"," ">> \o RELEASED \o <<" ">>)],
      [status |-> Some(<<"u","n">> \o RELEASED)],
      [status |-> None],
      [title |-> Some(<<"U">>)],
      [title |-> None],
      [vote_average |-> Some(5), status |-> Some(RELEASED)] }

InitMovies ==
    /\ movies \in {<<>>, ImportedStore}
    /\ lists = {}
    /\ items = {}
    /\ resp = NoResp

CreateMovieM == create_movie_endpoint(MoviePayloads, MaxMovies)

UpdateMovieM == update_movie_call(UpdatePayloads)

NextMovies == CreateMovieM \/ UpdateMovieM \/ Respond

SpecMovies == InitMovies /\ [][NextMovies]_vars

----------------------------------------------------------------------------
(* Claims about stored movies (checked under SpecMovies) *)

\* the status a create or update request supplies, if it supplies one
StatusGiven(op, req) ==
    IF op = "create_movie" THEN req.status
    ELSE IF "status" \in DOMAIN req.movie_in THEN req.movie_in.status
    ELSE None

StatusStored(m) == m.status = None \/ Val(m.status) \in MOVIE_STATUS_VALUES

\* C23: after every movie create and movie update each stored movie's status is
\* absent or exactly 'released' or 'not released'; a supplied status is stored
\* trimmed and lower-cased, and a status outside the two values is rejected with
\* nothing written.
C23_StatusIsNormalised ==
    [][Answers({"create_movie", "update_movie"}) =>
         LET given == StatusGiven(resp'.op, resp'.req)
         IN  /\ \A i \in DOMAIN movies' : StatusStored(movies'[i])
             /\ (given # None /\ Lower(Strip(Val(given))) \notin MOVIE_STATUS_VALUES)
                   => resp'.code = 422 /\ movies' = movies
             /\ (given # None /\ Lower(Strip(Val(given))) \in MOVIE_STATUS_VALUES
                   /\ resp'.code \in {200, 201})
                   => resp'.body.status = Some(Lower(Strip(Val(given))))]_vars

\* a status spelled with blanks and capitals has been stored by a create and by
\* an update, and a status outside the two values has been turned down
C23_Witness ==
    /\ resp.op = "update_movie"
    /\ resp.code = 200
    /\ "status" \in DOMAIN resp.req.movie_in
    /\ resp.req.movie_in.status = Some(<<"N","o","t"," ">> \o RELEASED \o <<" ">>)
    /\ resp.body.status = Some(NOT_RELEASED)
    /\ \E i \in DOMAIN movies : movies[i].title = <<"I","n">>
                                /\ movies[i].status = Some(RELEASED)

\* C24: POST /movies never stores a movie with an empty title: a create request
\* whose title is empty is rejected and the store is unchanged.
C24_EmptyTitleRejected ==
    [][Answers({"create_movie"}) =>
         /\ resp'.code = 201 => resp'.body.title # <<>>
         /\ resp'.req.title = <<>> => resp'.code = 422 /\ movies' = movies]_vars

----------------------------------------------------------------------------
(* Claims about store sessions (checked under SpecConcurrentLive) *)

\* worker r holds an open session: get_db's from the start of the request to its
\* finally, read_root's own from SessionLocal() to its finally
SessionOpen(r) ==
    /\ ~Idle(r)
    /\ ~(resp[r].op = "read_root" /\ resp[r].pc = "done")

\* C25: the session a request has acquired is closed on every exit path: after a
\* normal return, after a 404, 409 or 422 answer, and after an exception of the
\* store; no request leaves its session open for ever.
C25_SessionIsClosed ==
    \A r \in Workers : SessionOpen(r) ~> ~SessionOpen(r)

\* one request has failed on an exception of the store and another has been
\* answered 404 or 409, both with their sessions still to be closed
C25_Witness ==
    \E r, q \in Workers :
       /\ SessionOpen(r) /\ resp[r].pc = "done" /\ resp[r].code = 500
       /\ SessionOpen(q) /\ resp[q].pc = "done" /\ resp[q].code \in {404, 409}

----------------------------------------------------------------------------
(* Claims about the pagination envelope (checked under SpecQuery) *)

\* what the crud function returns for the answered request
CoreResult ==
    CASE resp.op = "list_movies" ->
           get_movies(movies, resp.req.skip, resp.req.limit, resp.req.title,
                      resp.req.genre, resp.req.adult,
                      IF Truthy(resp.req.status)
                      THEN Some(Lower(Strip(Val(resp.req.status)))) ELSE None,
                      resp.req.min_vote_average)
      [] resp.op = "by_genre" ->
           get_movies_by_genre(movies, resp.req.genre, resp.req.skip, resp.req.limit)
      [] resp.op = "by_rating" ->
           get_movies_by_rating(movies, resp.req.min_rating, resp.req.max_rating,
                                resp.req.skip, resp.req.limit)

\* C26: the answer of GET /movies, by-genre and by-rating has exactly the fields
\* items, total, skip and limit; items and total are the query's, and skip and
\* limit are the request's own values, also when the request's limit is above
\* the cap of 100.
C26_EnvelopeIsVerbatim ==
    Paged =>
       /\ DOMAIN resp.body = {"items", "total", "skip", "limit"}
       /\ resp.body.items = CoreResult.movies
       /\ resp.body.total = CoreResult.total
       /\ resp.body.skip = resp.req.skip
       /\ resp.body.limit = resp.req.limit

\* a page cut at the cap whose envelope still reports the asked limit and skip
C26_Witness ==
    /\ Paged
    /\ resp.req.limit > MAX_LIMIT
    /\ resp.req.skip > 0
    /\ Len(resp.body.items) = MAX_LIMIT
    /\ resp.body.limit = resp.req.limit
    /\ resp.body.skip = resp.req.skip

----------------------------------------------------------------------------
(* Claims about what an update of a list leaves alone (checked under SpecNames) *)

ListOfName(ltbl, name) == CHOOSE l \in ltbl : l.name = name

ListOfId(ltbl, id) == CHOOSE l \in ltbl : l.id = id

\* C27: a successful PUT /lists/{name} changes only what it supplies: without
\* movie_titles the items and their positions stay as they were, without a
\* description the description stays, a supplied description is stored, an empty
\* movie_titles leaves the list without items; the list's name, the other lists
\* with their items, and the movies never change.
C27_UpdateChangesOnlySupplied ==
    [][(Answers({"update_list"}) /\ resp'.code = 200) =>
         LET req == resp'.req
             old == ListOfName(lists, req.name)
             new == ListOfId(lists', old.id)
         IN  /\ movies' = movies
             /\ lists' \ {new} = lists \ {old}
             /\ {i \in items' : i.list_id # old.id} = {i \in items : i.list_id # old.id}
             /\ new.name = old.name
             /\ req.description = None => new.description = old.description
             /\ req.description # None => new.description = req.description
             /\ req.movie_titles = None => items' = items
             /\ req.movie_titles = Some(<<>>)
                   => {i \in items' : i.list_id = old.id} = {}]_vars

\* a list with a description and an item has been updated without either, while
\* another list is stored, and has been emptied by an update with no titles
C27_Witness ==
    /\ resp.op = "update_list"
    /\ resp.code = 200
    /\ resp.req.description = None
    /\ resp.req.movie_titles = Some(<<>>)
    /\ resp.before # <<>>
    /\ resp.body.description # None
    /\ resp.body.movies = <<>>
    /\ Cardinality(lists) = 2
    /\ \E i \in items : i.list_id # resp.body.id

\* the same for an update that supplies nothing
C27_WitnessNothingSupplied ==
    /\ resp.op = "update_list"
    /\ resp.code = 200
    /\ resp.req.description = None
    /\ resp.req.movie_titles = None
    /\ resp.body.description # None
    /\ resp.body.movies # <<>>

----------------------------------------------------------------------------
(* Claims about repeated movies in a list (checked under Spec) *)

\* C28: the resolver never returns one movie twice, also when the request names
\* a title more than once and when several stored movies carry titles that
\* differ in letter case only; no stored list has two items for one movie.
C28_NoMovieTwice ==
    /\ ListWrite =>
          \A a, b \in DOMAIN resp.resolved :
             resp.resolved[a].id = resp.resolved[b].id => a = b
    /\ \A l \in lists :
          \A i, j \in ItemsOfList(l) : i.movie_id = j.movie_id => i = j

\* a list was written from a request naming one title in two spellings while two
\* stored movies carry titles equal up to letter case, and a movie was resolved
C28_Witness ==
    /\ ListWrite
    /\ resp.resolved # <<>>
    /\ \E i, j \in DOMAIN GivenTitles :
          i # j /\ Folded(GivenTitles[i]) = Folded(GivenTitles[j])
    /\ \E a, b \in DOMAIN movies :
          a # b /\ Upper(movies[a].title) = Upper(movies[b].title)
    /\ \E l \in lists : ItemsOfList(l) # {}

----------------------------------------------------------------------------
(* Claims about concurrent updates of one list (checked under SpecConcurrent) *)

\* worker r serves an update that names titles
UpdatesTitles(rec) ==
    /\ rec.op = "update_list"
    /\ "movie_titles" \in DOMAIN rec.req
    /\ rec.req.movie_titles # None

\* the movie ids of a list's items, by position
MovieIdsOf(itbl, list_id) ==
    LET its == items_of(itbl, list_id)
    IN  [n \in DOMAIN its |-> its[n].movie_id]

\* the positions of the list's items are exactly 1..N, none twice
PositionsOneToN(itbl, list_id) ==
    LET rows == {i \in itbl : i.list_id = list_id}
    IN  /\ {i.position : i \in rows} = 1..Cardinality(rows)
        /\ \A i, j \in rows : i.position = j.position => i = j

\* C29: however two concurrent PUT /lists/{name} requests with titles on one
\* list interleave, every commit of one of them leaves the list with exactly
\* the resolved movies of that request at positions 1..N, so the final items
\* are those of the request that committed last: never a mixture of both
\* requests' items and never a repeated position.
C29_ConcurrentUpdatesDoNotMix ==
    [][\A r \in Workers :
          (/\ UpdatesTitles(resp[r])
           /\ resp[r].pc = "in_tx"
           /\ resp'[r].pc = "refresh")
            => LET id == resp[r].movie_list.id
               IN  /\ PositionsOneToN(items', id)
                   /\ \E res \in resolve_titles_to_movies(
                                    movies, Val(resp[r].req.movie_titles)) :
                         MovieIdsOf(items', id)
                            = [n \in DOMAIN res.movies |-> res.movies[n].id]]_vars

\* two updates with different titles were in progress together: the first to
\* commit answers with the movies of the other, which committed before the first
\* returned, and the list holds the other's movies at positions 1..N
C29_Witness ==
    \E r, q \in Workers :
       /\ r # q
       /\ UpdatesTitles(resp[r]) /\ UpdatesTitles(resp[q])
       /\ resp[r].req.movie_titles # resp[q].req.movie_titles
       /\ resp[r].pc = "done" /\ resp[r].code = 200
       /\ resp[q].pc = "refresh"
       /\ \E l \in lists :
             /\ l.id = resp[q].movie_list.id
             /\ l.id = resp[r].body.id
             /\ PositionsOneToN(items, l.id)
             /\ \E res \in resolve_titles_to_movies(
                              movies, Val(resp[q].req.movie_titles)) :
                   /\ MovieIdsOf(items, l.id)
                         = [n \in DOMAIN res.movies |-> res.movies[n].id]
                   /\ resp[r].body.movies = res.movies

----------------------------------------------------------------------------
(* utils/import_csv.py: the CSV import *)

\* x in v for two strings
InText(x, v) == \E i \in 0..(Len(v) - Len(x)) : SubSeq(v, i + 1, i + Len(x)) = x

T_unreleased == <<"u","n">> \o RELEASED

\* normalise_status of import_csv.py: the tests in the order of the code
import_normalise_status(value) ==
    IF value = None THEN None
    ELSE LET v == Lower(Strip(Val(value)))
         IN  IF InText(RELEASED, v) THEN Some(RELEASED)
             ELSE IF InText(NOT_RELEASED, v) \/ InText(T_unreleased, v)
             THEN Some(NOT_RELEASED)
             ELSE None

\* INSERT OR REPLACE INTO movies: the row of that id is replaced; rows in id order
insert_or_replace(db, row) ==
    SelectSeq(db, LAMBDA m : m.id < row.id)
       \o <<row>> \o SelectSeq(db, LAMBDA m : m.id > row.id)

\* one turn of the loop over the CSV rows; a missing title column gives ''
import_csv_row ==
    /\ resp.op = "import_csv"
    /\ resp.pending # <<>>
    /\ LET row == Head(resp.pending)
           values == [id           |-> row.id,
                      title        |-> Strip(IF row.title = None THEN <<>>
                                             ELSE Val(row.title)),
                      genres       |-> None,
                      keywords     |-> None,
                      status       |-> import_normalise_status(row.status),
                      vote_average |-> None,
                      adult        |-> None]
       IN  /\ movies' = insert_or_replace(movies, values)
           /\ resp' = [op |-> "import_csv", pending |-> Tail(resp.pending),
                       last |-> Some(row)]
    /\ UNCHANGED <<lists, items>>

\* the loop has ended: session.commit(); finally session.close()
import_csv_end ==
    /\ resp.op = "import_csv"
    /\ resp.pending = <<>>
    /\ resp' = NoResp
    /\ UNCHANGED <<movies, lists, items>>

----------------------------------------------------------------------------
(* The import machine: a CSV file of a few rows is imported into an empty table *)

MaxRows == 2

CsvIds == {1, 2}

CsvTitles == {None, Some(<<" ","I","n">>)}

\* texts of the status column
CsvStatuses ==
    { None, Some(<<>>),
      Some(<<"R">> \o Tail(RELEASED)),
      Some(<<" ">> \o Upper(NOT_RELEASED) \o <<" ">>),
      Some(<<"U","n">> \o RELEASED),
      Some(<<"R","u","m","o","r","e","d">>) }

CsvRows == [id : CsvIds, title : CsvTitles, status : CsvStatuses]

InitImport ==
    /\ movies = <<>>
    /\ lists = {}
    /\ items = {}
    /\ resp \in {[op |-> "import_csv", pending |-> rows, last |-> None] :
                    rows \in SeqsUpTo(CsvRows, MaxRows)}

NextImport == import_csv_row \/ import_csv_end

SpecImport == InitImport /\ [][NextImport]_vars

----------------------------------------------------------------------------
(* Claims about the import (checked under SpecImport) *)

\* the status the import is to store for a text of the status column
StatusFor(value) ==
    IF value = None THEN None
    ELSE LET v == Lower(Strip(Val(value)))
         IN  IF InText(NOT_RELEASED, v) \/ InText(T_unreleased, v)
             THEN Some(NOT_RELEASED)
             ELSE IF InText(RELEASED, v) THEN Some(RELEASED)
             ELSE None

\* a row has just been imported
RowImported == resp.op = "import_csv" /\ resp.last # None

ImportedRow == CHOOSE m \in {movies[i] : i \in DOMAIN movies} : m.id = Val(resp.last).id

\* C30: the import stores 'not released' for a status text containing
\* 'not released' or 'unreleased' (letter case and surrounding blanks ignored),
\* 'released' for any other text containing 'released', and no status for
\* every other text and for a missing one.
C30_ImportStatus ==
    RowImported => ImportedRow.status = StatusFor(Val(resp.last).status)

\* the same statement for texts that contain neither 'not released' nor
\* 'unreleased'
C30_HoldsForOtherTexts ==
    (RowImported
       /\ (Val(resp.last).status # None
             => LET v == Lower(Strip(Val(Val(resp.last).status)))
                IN  ~InText(NOT_RELEASED, v) /\ ~InText(T_unreleased, v)))
      => ImportedRow.status = StatusFor(Val(resp.last).status)

=============================================================================
